---------------------------- MODULE Spec2Model ----------------------------
(***************************************************************************)
(* A model of json-rpc-service: the connector's dispatch wrapper, its      *)
(* compilation of the route table and its clients                          *)
(* (services/Connector.ts), the bounded parallel pool                      *)
(* (utils/ParallelPool.ts), the sequential call buffer (utils/Parallel.ts) *)
(* the lifecycle of the basic service (services/Basic.ts): nested         *)
(* services and the iteration loop, and the start and stop of the main     *)
(* service (services/BasicMain.ts).                                        *)
(*                                                                         *)
(* Every asynchronous function is cut at its awaits: one action is the     *)
(* synchronous run of the code from one suspension point to the next.      *)
(* Each component has its own initial state and next-state relation; the   *)
(* variables of the other components keep their initial values.            *)
(***************************************************************************)
EXTENDS Integers, Sequences, FiniteSets, TLC

VARIABLES
    \* ---- Connector (dispatch) ----
    payloadHandler,              \* TRUE when a payload hook is registered
    useEmptyResponseCorrection,  \* Connector.useEmptyResponseCorrection
    defaultResponse,             \* Connector.defaultResponse
    metrics,                     \* the counters handle_api_{success,failure}_count per route
    disp,                        \* the dispatches in progress, one record per slot
    begunDispatches,             \* history: dispatches begun per route
    endedDispatches,             \* history: dispatches whose dispatcher finished, per route
    \* ---- ParallelPool ----
    queueVal,                    \* ParallelPool.queueVal: the items not yet started
    currentPromises,             \* ParallelPool.currentPromises
    isChecking,                  \* ParallelPool.isChecking
    item,                        \* per item: its handler's behaviour and where it is
    peak,                        \* history: the most handler invocations in flight at once
    started,                     \* history: the items in the order their handler was invoked
    flush,                       \* the call of flush() in progress
    \* ---- Parallel.consequentially ----
    seqQueue,                    \* state.queue (the calls' arguments, by call number)
    seqNull,                     \* TRUE once cancel() has set state.queue to null
    isCanceled,                  \* state.isCanceled
    isProcessing,                \* the flag of makeQueueHandler
    call,                        \* per wrapper call: where it is
    calls,                       \* history: number of wrapper calls made
    returnedLoops,               \* handleQueue runs that returned, flag not yet cleared
    seqHalt,                     \* "no", or "exit" after process.exit(1)
    \* ---- Basic: nested services ----
    nestedServices,              \* Basic.nestedServices
    registered,                  \* history: the children in registration order
    doneFlag,                    \* per child: Basic.doneFlag
    proc,                        \* the start()/stop() calls of the parent in progress
    ops,                         \* history: number of start()/stop() calls made
    stopCalls,                   \* history: per child, number of stop() invocations
    \* ---- Basic: iteration loop ----
    allowParallelIterations,
    throwOnIterationError,
    exclusiveIterationInProcess,
    loopId,                      \* Basic.loopId (0: undefined)
    timeouts,                    \* the startLoop calls whose first-iteration timer is pending
    intervals,                   \* the interval timers installed and not cleared
    loops,                       \* history: number of startLoop calls
    iter,                        \* per iteration: where it is and what started it
    begun,                       \* history: number of iterations begun
    stopRequested,               \* history: stopLoop() was called after the last startLoop()
    dropped,                     \* history: a tick found the guard taken
    lastEnd,                     \* history: how the last ended iteration ended
    \* ---- Connector: the start of the server ----
    routeConfig,                 \* the route config object of serverRoutes
    original,                    \* history: the config and the validation types as given
    serverTypes,                 \* serverDefaults.validationTypes
    rawRoutes,                   \* the route names of serverRoutes
    routes,                      \* the route table handed to the JSON-RPC server
    starts,                      \* history: number of startServer calls
    pong,                        \* the outcome of the last call of the route _ping
    server,                      \* Connector.server: "none", "listening", "closed", or
                                 \* "resolving" while startServer is in the loop over a type array
    \* ---- Connector: the clients ----
    clientsMap,                  \* Connector.clientsMap: the connect string of the client per alias
    replaced,                    \* history: the last addService took the place of another client
    externalCallsMetrics,        \* envs.JRS_EXTERNAL_CALLS_METRICS
    pending,                     \* the requests issued and not yet called back
    issued,                      \* history: number of client.request calls
    callStats,                   \* the counters call_api_{success,failure}_count per label api
    exited,                      \* TRUE once process.exit was called
    ended,                       \* how the last call of the API that ended did end
    \* ---- BasicMain ----
    startMongoBeforeBootFlag,    \* BasicMain.startMongoBeforeBootFlag
    mainNested,                  \* nestedServices of the main service
    mainDone,                    \* the services whose done() was called
    main,                        \* the call of start() or stop() of the main service
    mainLog,                     \* history: what the current call started, booted, stopped
    mainCalls                    \* history: number of start() and stop() calls

connectorVars == <<payloadHandler, useEmptyResponseCorrection, defaultResponse,
                   metrics, disp, begunDispatches, endedDispatches>>
poolVars == <<queueVal, currentPromises, isChecking, item, peak, started, flush>>
seqVars == <<seqQueue, seqNull, isCanceled, isProcessing, call, calls,
             returnedLoops, seqHalt>>
nestedVars == <<nestedServices, registered, doneFlag, proc, ops, stopCalls>>
loopVars == <<allowParallelIterations, throwOnIterationError,
              exclusiveIterationInProcess, loopId, timeouts, intervals, loops,
              iter, begun, stopRequested, dropped, lastEnd>>
routeVars == <<routeConfig, original, serverTypes, rawRoutes, routes, starts, pong,
              server>>
clientVars == <<clientsMap, replaced, externalCallsMetrics, pending, issued, callStats,
               exited, ended>>
mainVars == <<startMongoBeforeBootFlag, mainNested, mainDone, main, mainLog, mainCalls>>
vars == <<connectorVars, poolVars, seqVars, nestedVars, loopVars, routeVars, clientVars,
          mainVars>>

-----------------------------------------------------------------------------
(* Bounds of the model *)

MaxDispatches == 1      \* dispatches begun in one behaviour
MaxItems == 4           \* items ever enqueued in the pool
MaxFlushItems == 3      \* items ever enqueued in the pool where flush() is called or
                        \* whose settling is followed to the end
PoolCapacity == 2       \* the pool's parallelCount
MaxCalls == 3           \* calls of the consequentially wrapper
MaxChildren == 2        \* nested services registered
MaxOps == 2             \* start()/stop() calls on the parent
MaxLoops == 1           \* startLoop() calls
MaxIterations == 3      \* iterations begun
MaxStarts == 2           \* calls of startServer
MaxRequests == 1         \* requests issued through the clients
MaxMainCalls == 3        \* calls of start() and stop() of the main service

-----------------------------------------------------------------------------
(* Sequence helpers *)

RECURSIVE Reverse(_)
Reverse(s) == IF s = <<>> THEN <<>> ELSE Append(Reverse(Tail(s)), Head(s))

IsPrefix(s, t) == Len(s) <= Len(t) /\ SubSeq(t, 1, Len(s)) = s

Range(s) == {s[i] : i \in 1..Len(s)}


-----------------------------------------------------------------------------
(***************************************************************************)
(* Connector: the dispatch wrapper (Connector.ts, wrapMethod,              *)
(* handleWithOptions, handleHandlerError, reportStats)                     *)
(***************************************************************************)

DispatchIds == {"d1", "d2"}

\* The route table: a bare callable; a structured config with a validator,
\* one before stage and one after stage; and a structured config without a
\* validator whose after stage is the function that is also its handler.
\* Stages are named by their function object.
Routes == {"bare", "cfg", "same"}

IsFunction(r) == r = "bare"

OriginalHandler(r) == "h"

Before(r) == IF r = "cfg" THEN <<"b1">> ELSE <<>>

After(r) == IF r = "cfg" THEN <<"a1">> ELSE IF r = "same" THEN <<"h">> ELSE <<>>

HasValidator(r) == r = "cfg"

\* The params of a call and the compiled validator's verdict on them.
Params == {"pValid", "pInvalid"}

ValidatorAcceptsAll(r, p) == TRUE

Validator(r, p) == p = "pValid"

\* What a handler or stage may return.
RetVals == {"undefined", "null", "Ok", "res"}

DefaultResponseInit == "statusOK"

\* What setDefaultResponse may be given.
DefaultResponses == {DefaultResponseInit, "custom"}

FalsyUndefinedOnly(v) == v = "undefined"

Falsy(v) == v \in {"undefined", "null"}

\* A JavaScript value as thrown: what it is (kind), its class when it is an
\* Error, and its code and message properties ("absent" when it has none).
Val(kind, cls, code, message) ==
    [kind |-> kind, cls |-> cls, code |-> code, message |-> message]

NoVal == Val("none", "none", "absent", "absent")

InternalErrorTypes ==
    {"EvalError", "RangeError", "ReferenceError", "SyntaxError", "URIError"}

ErrorClasses == InternalErrorTypes \cup {"Error", "TypeError"}

\* ajv.errorsText(validator.errors): the text of a failed validation.
ErrorsText == "errorsText"

ThrowVals ==
    { Val("undefined", "none", "absent", "absent"),
      Val("null", "none", "absent", "absent"),
      Val("primitive", "none", "absent", "absent"),
      Val("object", "RangeError", "absent", "str"),
      Val("object", "TypeError", "absent", "str"),
      Val("object", "Error", "ECONNREFUSED", "str"),
      Val("object", "none", "404", "str"),
      Val("object", "none", "0", "str"),
      Val("object", "none", "404", ""),
      Val("object", "none", "absent", "absent") }

ValidationError == Val("object", "none", "400", ErrorsText)

ConnectionError == Val("object", "none", "1001", "Internal server error")

EmptyObject == Val("object", "none", "absent", "absent")

\* The TypeError of reading a property of null or undefined.
PropertyReadError == Val("object", "TypeError", "absent", "str")

Truthy(prop) == prop \notin {"absent", "0", ""}

\* handleHandlerError: cb says whether the callback was invoked, err is the
\* error it was given, or the error the function itself threw.
handleHandlerError(error) ==
    IF error.cls \in InternalErrorTypes
    THEN [cb |-> TRUE, err |-> error]
    ELSE IF error.kind \in {"undefined", "null"}
    THEN [cb |-> FALSE, err |-> PropertyReadError]
    ELSE IF error.code = "ECONNREFUSED"
    THEN [cb |-> TRUE, err |-> ConnectionError]
    ELSE IF error.cls \notin ErrorClasses /\ Truthy(error.code) /\ Truthy(error.message)
    THEN [cb |-> TRUE, err |-> error]
    ELSE [cb |-> TRUE, err |-> EmptyObject]

\* reportStats: the counter of the status is incremented for the route.
reportStats(m, route, isError) ==
    LET status == IF isError THEN "failure" ELSE "success"
    IN  [m EXCEPT ![route][status] = @ + 1]

IdleDispatch ==
    [pc |-> "idle", route |-> "bare", params |-> "pValid", data |-> "undefined",
     idx |-> 0, isError |-> FALSE, err |-> NoVal,
     cbCount |-> 0, cbErr |-> NoVal, cbData |-> "undefined",
     log |-> <<>>]

\* The queue of handleWithOptions.
PipelineHandlerFirst(r) == <<OriginalHandler(r)>> \o Before(r) \o After(r)

Pipeline(r) == Before(r) \o <<OriginalHandler(r)>> \o After(r)

ConnectorInit ==
    /\ payloadHandler \in BOOLEAN
    /\ useEmptyResponseCorrection = TRUE
    /\ defaultResponse = DefaultResponseInit
    /\ metrics = [r \in Routes |-> [success |-> 0, failure |-> 0]]
    /\ disp = [d \in DispatchIds |-> IdleDispatch]
    /\ begunDispatches = [r \in Routes |-> 0]
    /\ endedDispatches = [r \in Routes |-> 0]

\* What no action of the dispatcher changes.
ConnectorFrame ==
    /\ UNCHANGED <<payloadHandler, useEmptyResponseCorrection, defaultResponse>>
    /\ UNCHANGED <<poolVars, seqVars, nestedVars, loopVars, routeVars, clientVars, mainVars>>

\* The end of the try block with the pipeline's result v: the correction of
\* an empty response, the callback, and reportStats.
Complete(d, rec, v) ==
    LET data == IF useEmptyResponseCorrection /\ (Falsy(v) \/ v = "Ok")
                THEN defaultResponse ELSE v
    IN  /\ disp' = [disp EXCEPT ![d] =
                       [rec EXCEPT !.pc = "done", !.idx = 0, !.data = "undefined",
                                   !.params = IdleDispatch.params,
                                   !.cbCount = @ + 1, !.cbData = data]]
        /\ metrics' = reportStats(metrics, rec.route, rec.isError)
        /\ endedDispatches' = [endedDispatches EXCEPT ![rec.route] = @ + 1]

\* The catch block for the thrown value v: handleHandlerError, then
\* reportStats unless handleHandlerError threw, which rejects the
\* dispatcher's promise.
Catch(d, rec, v) ==
    LET h == handleHandlerError(v)
    IN  /\ IF h.cb
           THEN /\ disp' = [disp EXCEPT ![d] =
                               [rec EXCEPT !.pc = "done", !.idx = 0,
                                           !.params = IdleDispatch.params,
                                           !.data = "undefined", !.isError = TRUE,
                                           !.cbCount = @ + 1, !.cbErr = h.err,
                                           !.cbData = "null"]]
                /\ metrics' = reportStats(metrics, rec.route, TRUE)
           ELSE /\ disp' = [disp EXCEPT ![d] =
                               [rec EXCEPT !.pc = "rejected", !.idx = 0,
                                           !.params = IdleDispatch.params,
                                           !.data = "undefined", !.isError = TRUE,
                                           !.err = h.err]]
                /\ UNCHANGED metrics
        /\ endedDispatches' = [endedDispatches EXCEPT ![rec.route] = @ + 1]

\* The dispatcher from the point where the payload hook is behind it: a bare
\* callable is called; a structured route is validated, which fails the
\* dispatch or calls the first stage.
EnterHandler(d, rec) ==
    LET checked == IF HasValidator(rec.route)
                   THEN [rec EXCEPT !.log = Append(@, "validator")] ELSE rec
    IN  IF IsFunction(rec.route)
        THEN /\ disp' = [disp EXCEPT ![d] =
                            [rec EXCEPT !.pc = "handler",
                                        !.log = Append(@, OriginalHandler(rec.route))]]
             /\ UNCHANGED <<metrics, endedDispatches>>
        ELSE IF HasValidator(rec.route) /\ ~Validator(rec.route, rec.params)
        THEN Catch(d, checked, ValidationError)
        ELSE /\ disp' = [disp EXCEPT ![d] =
                            [checked EXCEPT !.pc = "stage", !.idx = 1,
                                            !.data = rec.params,
                                            !.log = Append(@, Pipeline(rec.route)[1])]]
             /\ UNCHANGED <<metrics, endedDispatches>>

\* A dispatch takes the first free slot.
FreeSlot(d) ==
    /\ disp[d].pc = "idle"
    /\ d = "d2" => disp["d1"].pc # "idle"

\* The dispatcher is invoked with (params, callback).
Dispatch(d, r, p) ==
    /\ FreeSlot(d)
    /\ begunDispatches["bare"] + begunDispatches["cfg"] + begunDispatches["same"]
           < MaxDispatches
    /\ LET rec == [IdleDispatch EXCEPT !.route = r, !.params = p]
       IN  IF payloadHandler
           THEN /\ disp' = [disp EXCEPT ![d] = [rec EXCEPT !.pc = "hook"]]
                /\ UNCHANGED <<metrics, endedDispatches>>
           ELSE EnterHandler(d, rec)
    /\ begunDispatches' = [begunDispatches EXCEPT ![r] = @ + 1]
    /\ ConnectorFrame

\* The payload hook resolves.
HookResolve(d) ==
    /\ disp[d].pc = "hook"
    /\ EnterHandler(d, disp[d])
    /\ UNCHANGED begunDispatches
    /\ ConnectorFrame

\* The payload hook throws or rejects with v.
HookReject(d, v) ==
    /\ disp[d].pc = "hook"
    /\ Catch(d, disp[d], v)
    /\ UNCHANGED begunDispatches
    /\ ConnectorFrame

\* The bare callable returns v.
HandlerResolve(d, v) ==
    /\ disp[d].pc = "handler"
    /\ Complete(d, disp[d], v)
    /\ UNCHANGED begunDispatches
    /\ ConnectorFrame

\* The bare callable throws or rejects with v.
HandlerReject(d, v) ==
    /\ disp[d].pc = "handler"
    /\ Catch(d, disp[d], v)
    /\ UNCHANGED begunDispatches
    /\ ConnectorFrame

\* The loop of handleWithOptions: the current value after the stage at
\* rec.idx returned v.
StageData(rec, v) ==
    IF v # "undefined" \/ Pipeline(rec.route)[rec.idx] = OriginalHandler(rec.route)
    THEN v ELSE rec.data

\* The current stage returns v: the next stage is called, or the pipeline
\* returns its current value.
StageResolve(d, v) ==
    /\ disp[d].pc = "stage"
    /\ LET rec == disp[d]
       IN  IF rec.idx < Len(Pipeline(rec.route))
           THEN /\ disp' = [disp EXCEPT
                               ![d].data = StageData(rec, v),
                               ![d].idx = @ + 1,
                               ![d].log = Append(@, Pipeline(rec.route)[rec.idx + 1])]
                /\ UNCHANGED <<metrics, endedDispatches>>
           ELSE Complete(d, rec, StageData(rec, v))
    /\ UNCHANGED begunDispatches
    /\ ConnectorFrame

\* The current stage throws or rejects with v.
StageReject(d, v) ==
    /\ disp[d].pc = "stage"
    /\ Catch(d, disp[d], v)
    /\ UNCHANGED begunDispatches
    /\ ConnectorFrame

\* The settings of the response correction leave the dispatches alone.
SettingFrame ==
    /\ UNCHANGED <<payloadHandler, metrics, disp, begunDispatches, endedDispatches>>
    /\ UNCHANGED <<poolVars, seqVars, nestedVars, loopVars, routeVars, clientVars, mainVars>>

\* setDefaultResponse(value)
SetDefaultResponse(value) ==
    /\ defaultResponse' = value
    /\ UNCHANGED useEmptyResponseCorrection
    /\ SettingFrame

\* enableEmptyResponseCorrection()
EnableEmptyResponseCorrection ==
    /\ useEmptyResponseCorrection' = TRUE
    /\ UNCHANGED defaultResponse
    /\ SettingFrame

\* disableEmptyResponseCorrection()
DisableEmptyResponseCorrection ==
    /\ useEmptyResponseCorrection' = FALSE
    /\ UNCHANGED defaultResponse
    /\ SettingFrame

\* The slot of a finished dispatch is taken for the next one.
Release(d) ==
    /\ disp[d].pc \in {"done", "rejected"}
    /\ disp' = [disp EXCEPT ![d] = IdleDispatch]
    /\ UNCHANGED <<metrics, begunDispatches, endedDispatches>>
    /\ ConnectorFrame

-----------------------------------------------------------------------------
(***************************************************************************)
(* Connector: compilation of the route table.  A JavaScript value of a     *)
(* route config is a record with its kind and, by kind, its text (s), its  *)
(* elements (a) or its properties (o).                                     *)
(***************************************************************************)

NoKeys == [k \in {} |-> k]

Undefined == [kind |-> "undefined", s |-> "", a |-> <<>>, o |-> NoKeys]
Scalar(s) == [kind |-> "scalar", s |-> s, a |-> <<>>, o |-> NoKeys]
Array(a) == [kind |-> "array", s |-> "", a |-> a, o |-> NoKeys]
Object(o) == [kind |-> "object", s |-> "", a |-> <<>>, o |-> o]

\* An array of strings.
Strs(names) == Array([i \in DOMAIN names |-> Scalar(names[i])])

Has(v, key) == v.kind = "object" /\ key \in DOMAIN v.o

\* v[key]
Get(v, key) == IF Has(v, key) THEN v.o[key] ELSE Undefined

\* v[key] = x
Put(v, key, x) ==
    Object([k \in DOMAIN v.o \cup {key} |-> IF k = key THEN x ELSE v.o[k]])

\* The truthiness of a value.
JsTruthy(v) ==
    /\ v.kind # "undefined"
    /\ v.kind = "scalar" => v.s \notin {"", "0", "false", "null"}

\* deepmerge's isMergeableObject: arrays and plain objects.
Mergeable(v) == v.kind \in {"array", "object"}

\* deepmerge(x, y): arrays are concatenated, objects are merged key by key,
\* and in every other case the clone of y is the result.
RECURSIVE merge(_, _)
merge(x, y) ==
    IF x.kind = "array" /\ y.kind = "array"
    THEN Array(x.a \o y.a)
    ELSE IF x.kind = "object" /\ y.kind = "object"
    THEN Object([k \in DOMAIN x.o \cup DOMAIN y.o |->
                    IF k \notin DOMAIN y.o THEN x.o[k]
                    ELSE IF k \notin DOMAIN x.o THEN y.o[k]
                    ELSE IF Mergeable(y.o[k]) /\ JsTruthy(x.o[k])
                    THEN merge(x.o[k], y.o[k])
                    ELSE y.o[k]])
    ELSE y

\* No default at all.
NoDefaultValidation == Object(NoKeys)

getDefaultValidationInherits ==
    Object(("type" :> Scalar("object")) @@ ("additionalProperties" :> Scalar("false")))

\* serverDefaults.parents
ParentAliases == {"auth", "loose"}

Parents ==
    [alias \in ParentAliases |->
        IF alias = "auth"
        THEN [before |-> <<"checkAuth">>, after |-> <<"audit">>,
              validation |->
                  Object(("required" :> Strs(<<"secret">>))
                      @@ ("maxProperties" :> Scalar("5"))
                      @@ ("properties" :>
                            Object("secret" :> Object("type" :> Scalar("string")))))]
        ELSE [before |-> <<"convertIds">>, after |-> <<>>,
              validation |->
                  Object(("type" :> Scalar("array"))
                      @@ ("additionalProperties" :> Scalar("true"))
                      @@ ("maxProperties" :> Scalar("9")))]]

\* The order in which the names of custom types were inserted in
\* serverDefaults.validationTypes.
TypeNames == <<"message", "stringOrNull", "id", "node", "even", "odd">>

MaxResolveSteps == 8    \* turns of the loop of resolveValidationTypeForDefinition

\* [...new Set(seq)]: the first occurrence of every element is kept.
RECURSIVE Dedupe(_)
Dedupe(seq) ==
    IF seq = <<>> THEN <<>>
    ELSE LET front == Dedupe(SubSeq(seq, 1, Len(seq) - 1))
             last == seq[Len(seq)]
         IN  IF \E i \in DOMAIN front : front[i] = last
             THEN front ELSE Append(front, last)

\* types[name] for an element of a type array.
CustomType(types, el) ==
    IF el.kind = "scalar" THEN Get(types, el.s) ELSE Undefined

\* A keyword the node defines with a falsy value counts as not defined.
NodeDefines(typeConfig, key) == JsTruthy(Get(typeConfig, key))

mergeTypeValidationProperties(customType, typeConfig) ==
    Object([key \in DOMAIN typeConfig.o \cup (DOMAIN customType.o \ {"type"}) |->
               IF key = "type" \/ key \notin DOMAIN customType.o
               THEN typeConfig.o[key]
               ELSE IF ~NodeDefines(typeConfig, key)
               THEN customType.o[key]
               ELSE IF Mergeable(typeConfig.o[key])
               THEN merge(customType.o[key], typeConfig.o[key])
               ELSE typeConfig.o[key]])

\* The loop of resolveValidationTypeForDefinition from position i on (the
\* positions count from 1): cfg is the node, def the type array.  The loop
\* has no bound of its own; one that is still running after MaxResolveSteps
\* turns is reported as running on (the types without a cycle are through
\* in four turns).
RECURSIVE resolveValidationTypeForDefinition(_, _, _, _, _)
resolveValidationTypeForDefinition(typeConfig, typeDefinition, i, types, fuel) ==
    IF i > Len(typeDefinition) \/ fuel = 0
    THEN [cfg |-> typeConfig, def |-> typeDefinition,
          running |-> i <= Len(typeDefinition)]
    ELSE LET customType == CustomType(types, typeDefinition[i])
         IN  IF ~JsTruthy(customType)
             THEN resolveValidationTypeForDefinition(
                      typeConfig, typeDefinition, i + 1, types, fuel - 1)
             ELSE LET t == Get(customType, "type")
                      currentTypes == IF t.kind = "array" THEN t.a ELSE <<t>>
                      again == \E j \in DOMAIN currentTypes :
                                   JsTruthy(CustomType(types, currentTypes[j]))
                  IN  resolveValidationTypeForDefinition(
                          mergeTypeValidationProperties(customType, typeConfig),
                          SubSeq(typeDefinition, 1, i - 1) \o currentTypes
                              \o SubSeq(typeDefinition, i + 1, Len(typeDefinition)),
                          IF again THEN i ELSE i + 1, types, fuel - 1)

\* The type array written back as it is.
NoCollapse(typeDefinition) == Array(typeDefinition)

\* The type array as it is written back: a single value is a scalar.
Collapse(typeDefinition) ==
    IF Len(typeDefinition) = 1 THEN typeDefinition[1] ELSE Array(typeDefinition)

resolveValidationType(typeConfig, types) ==
    LET t == Get(typeConfig, "type")
        r == resolveValidationTypeForDefinition(
                 typeConfig, IF t.kind = "array" THEN t.a ELSE <<t>>, 1, types,
                 MaxResolveSteps)
    IN  Put(r.cfg, "type", Collapse(Dedupe(r.def)))

InnerKeys == {"properties", "oneOf", "allOf", "anyOf"}

\* resolveCustomTypesForValidation: the validation as the walk leaves it.
RECURSIVE resolveCustomTypesForValidation(_, _)
ResolveNode(typeConfig, types) ==
    IF typeConfig.kind = "object"
    THEN resolveCustomTypesForValidation(resolveValidationType(typeConfig, types), types)
    ELSE typeConfig

ResolveValues(inner, types) ==
    IF inner.kind = "object"
    THEN Object([k \in DOMAIN inner.o |-> ResolveNode(inner.o[k], types)])
    ELSE IF inner.kind = "array"
    THEN Array([j \in DOMAIN inner.a |-> ResolveNode(inner.a[j], types)])
    ELSE inner

resolveCustomTypesForValidation(validation, types) ==
    Object([k \in DOMAIN validation.o |->
               IF k \in InnerKeys \cup {"items"} /\ JsTruthy(validation.o[k])
               THEN IF k = "items" /\ validation.o[k].kind = "object"
                    THEN ResolveNode(validation.o[k], types)
                    ELSE ResolveValues(validation.o[k], types)
               ELSE validation.o[k]])

\* resolveCustomInnerTypes: the types are resolved in place, one after the
\* other, the names from position i on being still to do.
RECURSIVE resolveCustomInnerTypes(_, _)
resolveCustomInnerTypes(types, i) ==
    IF i > Len(TypeNames) THEN types
    ELSE IF ~Has(types, TypeNames[i]) THEN resolveCustomInnerTypes(types, i + 1)
    ELSE resolveCustomInnerTypes(
             Put(types, TypeNames[i], resolveValidationType(types.o[TypeNames[i]], types)),
             i + 1)

\* The loop over a type array comes to its end.
resolveValidationTypeEnds(typeConfig, types) ==
    LET t == Get(typeConfig, "type")
    IN  ~resolveValidationTypeForDefinition(
             typeConfig, IF t.kind = "array" THEN t.a ELSE <<t>>, 1, types,
             MaxResolveSteps).running

\* resolveCustomInnerTypes comes to its end: every type is resolved, in the
\* types as the earlier ones left them.
RECURSIVE resolveCustomInnerTypesEnds(_, _)
resolveCustomInnerTypesEnds(types, i) ==
    IF i > Len(TypeNames) THEN TRUE
    ELSE IF ~Has(types, TypeNames[i]) THEN resolveCustomInnerTypesEnds(types, i + 1)
    ELSE /\ resolveValidationTypeEnds(types.o[TypeNames[i]], types)
         /\ resolveCustomInnerTypesEnds(
                Put(types, TypeNames[i],
                    resolveValidationType(types.o[TypeNames[i]], types)),
                i + 1)

\* applyCustomValidationTypes: the validation and the types afterwards.
applyCustomValidationTypes(validation, validationTypes) ==
    IF ~JsTruthy(validationTypes)
    THEN [validation |-> validation, types |-> validationTypes]
    ELSE LET types == resolveCustomInnerTypes(validationTypes, 1)
         IN  [validation |-> resolveCustomTypesForValidation(validation, types),
              types |-> types]

\* What a route of serverRoutes may be: a bare function, or a config with
\* a validation, parents, and stages of its own.
BareHandler ==
    [fn |-> TRUE, validation |-> Undefined, inherits |-> Undefined,
     before |-> <<>>, after |-> <<>>, validator |-> Undefined]

OwnValidations ==
    { Undefined,
      Object(NoKeys),
      Object(("required" :> Strs(<<"message">>))
          @@ ("properties" :>
                Object(("message" :> Object("type" :> Scalar("message")))
                    @@ ("ids" :> Object(("type" :> Scalar("array"))
                                     @@ ("items" :> Object(("type" :> Strs(<<"id", "null">>))
                                                        @@ ("minLength" :> Scalar("0"))))))))),
      Object(("type" :> Scalar("array")) @@ ("maxProperties" :> Scalar("2"))),
      Object(("additionalProperties" :> Scalar("true"))
          @@ ("oneOf" :> Array(<<Object("type" :> Scalar("stringOrNull")),
                                 Object(("type" :> Strs(<<"message", "string">>))
                                     @@ ("maxLength" :> Scalar("7")))>>))),
      Object("type" :> Strs(<<"object", "null">>)) }

InheritsLists ==
    { Undefined, Strs(<<>>), Strs(<<"auth">>), Strs(<<"loose">>),
      Strs(<<"auth", "loose">>), Strs(<<"loose", "auth">>) }

OwnStages == { <<>>, <<"own">> }

RouteConfigs ==
    { BareHandler } \cup
    { [fn |-> FALSE, validation |-> v, inherits |-> i,
       before |-> s, after |-> s, validator |-> Undefined] :
          v \in OwnValidations, i \in InheritsLists, s \in OwnStages }

\* Types that name themselves or each other.
SelfNamingTypes == Object("node" :> Object("type" :> Scalar("node")))

CyclicTypes ==
    Object(("even" :> Object("type" :> Scalar("odd")))
        @@ ("odd" :> Object("type" :> Scalar("even"))))

GrowingTypes == Object("node" :> Object("type" :> Strs(<<"node", "null">>)))

\* serverDefaults.validationTypes
ValidationTypeSets ==
    { Undefined, SelfNamingTypes, CyclicTypes, GrowingTypes,
      Object(("message" :> Object(("type" :> Scalar("stringOrNull"))
                               @@ ("maxLength" :> Scalar("100"))))
          @@ ("stringOrNull" :> Object("type" :> Strs(<<"string", "null">>)))
          @@ ("id" :> Object(("type" :> Strs(<<"number", "stringOrNull">>))
                          @@ ("minLength" :> Scalar("1"))))) }

applyValidation(config) ==
    [config EXCEPT !.validation = merge(getDefaultValidationInherits, @)]

\* The loop of applyInherits over the aliases from position i on.
RECURSIVE Inherited(_, _, _)
Inherited(aliases, i, inherited) ==
    IF i > Len(aliases) THEN inherited
    ELSE LET parent == Parents[aliases[i].s]
         IN  Inherited(aliases, i + 1,
                 [before |-> inherited.before \o parent.before,
                  after |-> inherited.after \o parent.after,
                  validation |-> merge(inherited.validation, parent.validation)])

\* applyInherits where the stages of the parents are pushed behind the
\* route's own.
applyInheritsBehind(config) ==
    LET inherited == Inherited(config.inherits.a, 1,
                         [before |-> <<>>, after |-> <<>>, validation |-> Object(NoKeys)])
        own == IF JsTruthy(config.validation) THEN config.validation ELSE Object(NoKeys)
    IN  [config EXCEPT !.before = @ \o inherited.before,
                       !.after = @ \o inherited.after,
                       !.validation = merge(inherited.validation, own)]

applyInherits(config) ==
    LET inherited == Inherited(config.inherits.a, 1,
                         [before |-> <<>>, after |-> <<>>, validation |-> Object(NoKeys)])
        own == IF JsTruthy(config.validation) THEN config.validation ELSE Object(NoKeys)
    IN  [config EXCEPT !.before = inherited.before \o @,
                       !.after = inherited.after \o @,
                       !.validation = merge(inherited.validation, own)]

\* The first half of tryApplyConfigInherits: the defaults and the parents.
applyDefaultsAndInherits(config) ==
    LET c1 == IF JsTruthy(config.validation) THEN applyValidation(config) ELSE config
    IN  IF JsTruthy(c1.inherits) THEN applyInherits(c1) ELSE c1

\* tryApplyConfigInherits: the config and the validation types afterwards
\* (both are changed in place).
tryApplyConfigInherits(config, validationTypes) ==
    IF config.fn THEN [config |-> config, types |-> validationTypes]
    ELSE LET c2 == applyDefaultsAndInherits(config)
         IN  IF JsTruthy(c2.validation) /\ DOMAIN c2.validation.o # {}
             THEN LET r == applyCustomValidationTypes(c2.validation, validationTypes)
                  IN  [config |-> [c2 EXCEPT !.validation = r.validation,
                                             !.validator = r.validation],
                       types |-> r.types]
             ELSE [config |-> c2, types |-> validationTypes]

\* tryApplyConfigInherits never returns: the types are resolved for a
\* config with a validation, and their resolution runs on.
tryApplyConfigInheritsHangs(config, validationTypes) ==
    /\ ~config.fn
    /\ LET c2 == applyDefaultsAndInherits(config)
       IN  JsTruthy(c2.validation) /\ DOMAIN c2.validation.o # {}
    /\ JsTruthy(validationTypes)
    /\ ~resolveCustomInnerTypesEnds(validationTypes, 1)

\* The names under which serverRoutes may hold the route config, and the
\* name of the route the connector adds itself.
ConfigRouteNames == <<"transfer", "copy">>

PingRoute == "_ping"

\* this.alias
ConnectorAlias == "self"

NoPong == [state |-> "none", calls |-> 0, status |-> "", alias |-> ""]

RawRouteSets ==
    { {"transfer"}, {"transfer", "copy"}, {"transfer", PingRoute} }

\* No server was started.
RouteIdle ==
    /\ routeConfig = BareHandler
    /\ original = [config |-> BareHandler, types |-> Undefined]
    /\ serverTypes = Undefined
    /\ rawRoutes = {"transfer"}
    /\ routes = NoKeys
    /\ starts = 0
    /\ pong = NoPong
    /\ server = "none"

Aliases == {"a", "b"}

\* The status in the name of a call metric, and the methods requested:
\* _ping by the probe of addService, and a method of the caller's.
CallStatuses == {"success", "failure"}

ApiMethods == {"_ping", "method"}

\* No call metric was reported.
NoCallStats == [status \in CallStatuses, service \in Aliases, method \in ApiMethods |-> 0]

\* No client was added.
NoResult == [op |-> "none", outcome |-> "none", error |-> "none"]

\* The main service before its start: nothing registered, no adapter.
NotCalled == [at |-> "idle", idx |-> 0, startedOk |-> FALSE]

MainIdle ==
    /\ startMongoBeforeBootFlag = FALSE
    /\ mainNested = <<>>
    /\ mainDone = {}
    /\ main = NotCalled
    /\ mainLog = <<>>
    /\ mainCalls = 0

ClientIdle ==
    /\ clientsMap = NoKeys
    /\ replaced = FALSE
    /\ externalCallsMetrics = FALSE
    /\ pending = {}
    /\ issued = 0
    /\ callStats = NoCallStats
    /\ exited = FALSE
    /\ ended = NoResult

-----------------------------------------------------------------------------
(* Initial states of the other components (their actions follow below) *)

ItemIds == 1..MaxItems

\* No call of flush() is in progress. Of a call: `snap` are the promises it
\* waits for, `enq` says that queue() was called after it.
NoFlush == [at |-> "idle", snap |-> {}, enq |-> FALSE]

PoolInit ==
    /\ queueVal = <<>>
    /\ currentPromises = {}
    /\ isChecking = FALSE
    /\ item = [i \in ItemIds |-> [kind |-> "none", at |-> "new"]]
    /\ peak = 0
    /\ started = <<>>
    /\ flush = NoFlush

CallIds == 1..MaxCalls

SeqInit ==
    /\ seqQueue = <<>>
    /\ seqNull = FALSE
    /\ isCanceled = FALSE
    /\ isProcessing = FALSE
    /\ call = [c \in CallIds |-> [at |-> "none", args |-> "none", ran |-> "none"]]
    /\ calls = 0
    /\ returnedLoops = 0
    /\ seqHalt = "no"

Children == 1..MaxChildren

ProcIds == {"p1", "p2"}

\* What the start() or stop() of a child may reject with.
ChildErrors == {"e1", "e2"}

IdleProc == [kind |-> "idle", at |-> "idle", idx |-> 0, log |-> <<>>, err |-> "none"]

NestedInit ==
    /\ nestedServices = <<>>
    /\ registered = <<>>
    /\ doneFlag = [c \in Children |-> FALSE]
    /\ proc = [p \in ProcIds |-> IdleProc]
    /\ ops = 0
    /\ stopCalls = [c \in Children |-> 0]

IterIds == 1..MaxIterations

NewIteration == [at |-> "new", from |-> 0, first |-> FALSE, guard |-> FALSE]

LoopInit ==
    /\ allowParallelIterations \in BOOLEAN
    /\ throwOnIterationError \in BOOLEAN
    /\ exclusiveIterationInProcess = FALSE
    /\ loopId = 0
    /\ timeouts = {}
    /\ intervals = {}
    /\ loops = 0
    /\ iter = [i \in IterIds |-> NewIteration]
    /\ begun = 0
    /\ stopRequested = FALSE
    /\ dropped = FALSE
    /\ lastEnd = "none"

\* The state of a component no action of the behaviour touches.
ConnectorIdle ==
    /\ payloadHandler = FALSE
    /\ useEmptyResponseCorrection = TRUE
    /\ defaultResponse = DefaultResponseInit
    /\ metrics = [r \in Routes |-> [success |-> 0, failure |-> 0]]
    /\ disp = [d \in DispatchIds |-> IdleDispatch]
    /\ begunDispatches = [r \in Routes |-> 0]
    /\ endedDispatches = [r \in Routes |-> 0]

LoopIdle ==
    /\ allowParallelIterations = TRUE
    /\ throwOnIterationError = TRUE
    /\ exclusiveIterationInProcess = FALSE
    /\ loopId = 0
    /\ timeouts = {}
    /\ intervals = {}
    /\ loops = 0
    /\ iter = [i \in IterIds |-> NewIteration]
    /\ begun = 0
    /\ stopRequested = FALSE
    /\ dropped = FALSE
    /\ lastEnd = "none"

-----------------------------------------------------------------------------
(* The connector's specification *)

Init ==
    ConnectorInit /\ PoolInit /\ SeqInit /\ NestedInit /\ LoopIdle /\ RouteIdle /\ ClientIdle /\ MainIdle

Next ==
    \/ \E d \in DispatchIds, r \in Routes, p \in Params : Dispatch(d, r, p)
    \/ \E d \in DispatchIds : HookResolve(d)
    \/ \E d \in DispatchIds, v \in ThrowVals : HookReject(d, v)
    \/ \E d \in DispatchIds, v \in RetVals : HandlerResolve(d, v)
    \/ \E d \in DispatchIds, v \in ThrowVals : HandlerReject(d, v)
    \/ \E d \in DispatchIds, v \in RetVals : StageResolve(d, v)
    \/ \E d \in DispatchIds, v \in ThrowVals : StageReject(d, v)
    \/ \E d \in DispatchIds : Release(d)
    \/ \E value \in DefaultResponses : SetDefaultResponse(value)
    \/ EnableEmptyResponseCorrection
    \/ DisableEmptyResponseCorrection

Spec == Init /\ [][Next]_vars

Finished(d) == disp[d].pc \in {"done", "rejected"}

\* C1: when the dispatcher of a dispatch has finished, the callback has been
\* invoked exactly once for it, whatever the hook, the validator or a stage
\* returned or threw.
C1_CallbackExactlyOnce ==
    \A d \in DispatchIds : Finished(d) => disp[d].cbCount = 1

\* C2: on every route the success and failure counters together count the
\* dispatches that have finished: each finished dispatch incremented exactly
\* one of the two.
C2_CountersCountDispatches ==
    \A r \in Routes :
        metrics[r].success + metrics[r].failure = endedDispatches[r]

\* The compiled validator of the route of dispatch d rejects the params in
\* this step: the dispatcher is invoked with them and no payload hook is
\* registered, or the payload hook resolves.
ValidatorRejects(d) ==
    \/ ~payloadHandler /\ \E r \in Routes : HasValidator(r) /\ Dispatch(d, r, "pInvalid")
    \/ HookResolve(d) /\ HasValidator(disp[d].route) /\ disp[d].params = "pInvalid"

\* The hook, the handler or a stage of dispatch d throws v in this step.
Thrown(d, v) == HookReject(d, v) \/ HandlerReject(d, v) \/ StageReject(d, v)

\* C11: when the validator rejects the params, the callback receives the
\* error {code: 400, message: <the validator's error text>}, the validator
\* is all that was invoked (no handler, no stage), and the dispatch is
\* counted as a failure and not as a success.
C11_ValidationFailure ==
    [][\A d \in DispatchIds : ValidatorRejects(d) =>
          LET after == disp'[d]
          IN  /\ after.pc = "done"
              /\ after.cbCount = 1
              /\ after.cbErr = [kind |-> "object", cls |-> "none", code |-> "400",
                                message |-> ErrorsText]
              /\ after.cbData = "null"
              /\ after.log = <<"validator">>
              /\ metrics'[after.route].failure = metrics[after.route].failure + 1
              /\ metrics'[after.route].success = metrics[after.route].success]_vars

\* C11 witness: a dispatch is over whose validator rejected the params.
C11_Witness ==
    \E d \in DispatchIds :
        /\ disp[d].pc = "done"
        /\ disp[d].log = <<"validator">>
        /\ disp[d].cbErr.code = "400"
        /\ metrics[disp[d].route].failure >= 1

\* What a dispatch of the structured route r invokes, in order.
ExpectedOrder(r) ==
    (IF HasValidator(r) THEN <<"validator">> ELSE <<>>)
        \o Before(r) \o <<OriginalHandler(r)>> \o After(r)

ValidatorRuns(r) == IF HasValidator(r) THEN 1 ELSE 0

\* C12: in a dispatch of a structured route the validator runs once and
\* first, and the stages are invoked in the order before..., handler,
\* after..., each once: while stage number idx is awaited, what has been
\* invoked is the validator and the first idx stages; a dispatch that ended
\* without error invoked them all, one that failed a prefix of them.
C12_StagesInOrder ==
    \A d \in DispatchIds :
        LET rec == disp[d]
            r == rec.route
        IN  ~IsFunction(r) =>
              /\ rec.pc = "stage" =>
                     rec.log = SubSeq(ExpectedOrder(r), 1, rec.idx + ValidatorRuns(r))
              /\ rec.pc = "done" /\ ~rec.isError => rec.log = ExpectedOrder(r)
              /\ rec.pc \in {"done", "rejected"} /\ rec.isError =>
                     IsPrefix(rec.log, ExpectedOrder(r))

\* C12 witness: a dispatch of the route with a validator, a before stage and
\* an after stage ended without error.
C12_Witness ==
    \E d \in DispatchIds :
        /\ disp[d].pc = "done"
        /\ ~disp[d].isError
        /\ disp[d].log = <<"validator", "b1", "h", "a1">>

\* The value the callback is given for the pipeline result x when the
\* dispatch ends without error.
Response(x) ==
    IF useEmptyResponseCorrection /\ (x \in {"undefined", "null"} \/ x = "Ok")
    THEN defaultResponse ELSE x

\* C13: the first stage is passed params; when a stage returns v, the
\* current value becomes v if v is not undefined or the stage is the
\* original handler (by its place in the pipeline), and stays what it was
\* otherwise; the current value is what the next stage is passed and, after
\* the last stage, what the pipeline returns.
C13_CurrentData ==
    /\ [](\A d \in DispatchIds :
              disp[d].pc = "stage" /\ disp[d].idx = 1 => disp[d].data = disp[d].params)
    /\ [][\A d \in DispatchIds, v \in RetVals : StageResolve(d, v) =>
              LET rec == disp[d]
                  isOriginal == rec.idx = Len(Before(rec.route)) + 1
                  expected == IF v # "undefined" \/ isOriginal THEN v ELSE rec.data
              IN  IF disp'[d].pc = "stage"
                  THEN disp'[d].data = expected
                  ELSE disp'[d].cbData = Response(expected)]_vars

\* C14: when the hook, the validator, the handler or a stage throws, the
\* dispatcher is over without another stage being invoked, and the dispatch
\* is counted as a failure.
C14_ShortCircuitCountsFailure ==
    [][\A d \in DispatchIds :
          /\ \A v \in ThrowVals : Thrown(d, v) =>
                 /\ disp'[d].log = disp[d].log
                 /\ disp'[d].pc \in {"done", "rejected"}
                 /\ metrics'[disp[d].route].failure = metrics[disp[d].route].failure + 1
          /\ ValidatorRejects(d) =>
                 /\ disp'[d].log = <<"validator">>
                 /\ disp'[d].pc \in {"done", "rejected"}
                 /\ metrics'[disp'[d].route].failure
                        = metrics[disp'[d].route].failure + 1]_vars

\* C15: a dispatch that ends without error gives the callback the default
\* response when the correction is enabled at that moment and the pipeline's
\* result is falsy or "Ok", and the result itself otherwise; on bare and on
\* structured routes.
C15_EmptyResponseCorrection ==
    [][\A d \in DispatchIds, v \in RetVals :
          (/\ disp[d].pc \in {"handler", "stage"}
           /\ disp'[d].pc = "done"
           /\ HandlerResolve(d, v) \/ StageResolve(d, v)) =>
              LET result == IF disp[d].pc = "handler" THEN v ELSE StageData(disp[d], v)
              IN  /\ disp'[d].cbCount = 1
                  /\ disp'[d].cbErr = NoVal
                  /\ disp'[d].cbData =
                        IF useEmptyResponseCorrection
                               /\ (result \in {"undefined", "null"} \/ result = "Ok")
                        THEN defaultResponse ELSE result]_vars

\* C15 witness: a dispatch that ended without error was given the response
\* configured by setDefaultResponse in place of its result.
C15_Witness ==
    \E d \in DispatchIds :
        disp[d].pc = "done" /\ ~disp[d].isError /\ disp[d].cbData = "custom"

\* The error the callback is to be given for the thrown value v: the first
\* rule that matches, of the four.
Classified(v) ==
    IF v.cls \in {"EvalError", "RangeError", "ReferenceError", "SyntaxError", "URIError"}
    THEN v
    ELSE IF v.code = "ECONNREFUSED"
    THEN [kind |-> "object", cls |-> "none", code |-> "1001",
          message |-> "Internal server error"]
    ELSE IF v.kind = "object" /\ v.cls = "none" /\ v.code # "absent" /\ v.message # "absent"
    THEN v
    ELSE [kind |-> "object", cls |-> "none", code |-> "absent", message |-> "absent"]

\* C16: for every value thrown in a dispatch the callback is given the error
\* of the first matching rule, and null as the result.
C16_ErrorClassification ==
    [][\A d \in DispatchIds, v \in ThrowVals : Thrown(d, v) =>
          /\ disp'[d].cbCount = 1
          /\ disp'[d].cbErr = Classified(v)
          /\ disp'[d].cbData = "null"]_vars

IsNumber(code) == code \in {"0", "400", "404", "1001"}

IsString(message) == message \in {"", "str", ErrorsText, "Internal server error"}

\* C17: a thrown plain record with a numeric code and a string message is
\* given to the callback unchanged.
C17_RecordForwardedVerbatim ==
    [][\A d \in DispatchIds, v \in ThrowVals :
          (Thrown(d, v) /\ v.kind = "object" /\ v.cls = "none"
               /\ IsNumber(v.code) /\ IsString(v.message)) =>
              /\ disp'[d].cbCount = 1
              /\ disp'[d].cbErr = v]_vars

-----------------------------------------------------------------------------
(***************************************************************************)
(* ParallelPool (utils/ParallelPool.ts)                                    *)
(*                                                                         *)
(* An item is "new" (not enqueued yet), "queued" (in queueVal), "running"  *)
(* (its handler invocation has started and has not settled), "resolved" or *)
(* "rejected" (the handler's promise has settled and runNext has not       *)
(* resumed yet), and at last "fulfilled" or "failed" (its future settled). *)
(* The handler of an item is of one of three kinds: "async" returns a      *)
(* promise that settles later, "throw" throws synchronously, "spawn"       *)
(* enqueues one more item synchronously and then goes on as "async".       *)
(***************************************************************************)

HandlerKinds == {"async", "throw", "spawn"}

parallelCount == PoolCapacity

\* The pool's fields as one value, for the synchronous code that runs
\* inside one action.
PoolState == [q |-> queueVal, cur |-> currentPromises, chk |-> isChecking,
              it |-> item, peak |-> peak, ord |-> started, fl |-> flush]

InFlight(it) == {i \in ItemIds : it[i].at = "running"}

FreshItems(it) == {i \in ItemIds : it[i].at = "new"}

Min(S) == CHOOSE x \in S : \A y \in S : x <= y

Max(a, b) == IF a >= b THEN a ELSE b

\* The guard of the loop of checkQueue.
MayRunNextOver(st) == Len(st.q) > 0 /\ Cardinality(st.cur) <= parallelCount

MayRunNext(st) == Len(st.q) > 0 /\ Cardinality(st.cur) < parallelCount

\* queueVal.push(itemInfo)
Unshift(q, i) == <<i>> \o q

Push(q, i) == Append(q, i)

RECURSIVE checkQueue(_), Drain(_), runNext(_), queue(_, _, _)

\* queue(...args): the item is pushed and the queue is checked.
queue(st, i, kind) ==
    checkQueue([st EXCEPT !.q = Push(@, i),
                          !.it[i] = [kind |-> kind, at |-> "queued"],
                          !.fl.enq = (st.fl.at # "idle")])

\* runNext where a handler that throws synchronously keeps its slot: the
\* future is rejected, the promise stays in currentPromises.
runNextKeepsSlot(st) ==
    LET i == Head(st.q)
        s1 == [st EXCEPT !.q = Tail(@), !.cur = @ \cup {i}, !.it[i].at = "running"]
        s2 == [s1 EXCEPT !.peak = Max(@, Cardinality(InFlight(s1.it))),
                         !.ord = Append(@, i)]
    IN  CASE st.it[i].kind = "throw" ->
                checkQueue([s2 EXCEPT !.it[i].at = "failed"])
          [] st.it[i].kind = "spawn" /\ FreshItems(s2.it) # {} ->
                queue(s2, Min(FreshItems(s2.it)), "async")
          [] OTHER -> s2

\* runNext up to its await: the head of the queue is shifted, its promise
\* is added to currentPromises and the handler is called. A handler that
\* throws synchronously is caught at once: the future is rejected, the
\* promise deleted and the queue checked (inside the check already running).
runNext(st) ==
    LET i == Head(st.q)
        s1 == [st EXCEPT !.q = Tail(@), !.cur = @ \cup {i}, !.it[i].at = "running"]
        s2 == [s1 EXCEPT !.peak = Max(@, Cardinality(InFlight(s1.it))),
                         !.ord = Append(@, i)]
    IN  CASE st.it[i].kind = "throw" ->
                checkQueue([s2 EXCEPT !.it[i].at = "failed", !.cur = @ \ {i}])
          [] st.it[i].kind = "spawn" /\ FreshItems(s2.it) # {} ->
                queue(s2, Min(FreshItems(s2.it)), "async")
          [] OTHER -> s2

\* The while loop of checkQueue.
Drain(st) == IF MayRunNext(st) THEN Drain(runNext(st)) ELSE st

checkQueue(st) ==
    IF Len(st.q) = 0 \/ st.chk
    THEN st
    ELSE [Drain([st EXCEPT !.chk = TRUE]) EXCEPT !.chk = FALSE]

PoolFrame == UNCHANGED <<connectorVars, seqVars, nestedVars, loopVars, routeVars, clientVars, mainVars>>

SetPool(st) ==
    /\ queueVal' = st.q
    /\ currentPromises' = st.cur
    /\ isChecking' = st.chk
    /\ item' = st.it
    /\ peak' = st.peak
    /\ started' = st.ord
    /\ flush' = st.fl

\* queue(...args) is called for a new item whose handler is of the kind k.
Queue(k) ==
    /\ FreshItems(item) # {}
    /\ SetPool(queue(PoolState, Min(FreshItems(item)), k))
    /\ PoolFrame

\* queueList([a, b]): queue() is called for each element in turn.
QueueList(k1, k2) ==
    /\ FreshItems(item) # {}
    /\ LET s1 == queue(PoolState, Min(FreshItems(item)), k1)
       IN  /\ FreshItems(s1.it) # {}
           /\ SetPool(queue(s1, Min(FreshItems(s1.it)), k2))
    /\ PoolFrame

\* The promise returned by the handler of item i settles.
HandlerSettle(i, ok) ==
    /\ item[i].at = "running"
    /\ item' = [item EXCEPT ![i].at = IF ok THEN "resolved" ELSE "rejected"]
    /\ UNCHANGED <<queueVal, currentPromises, isChecking, peak, started, flush>>
    /\ PoolFrame

\* runNext resumes after its await: the future of item i is settled, its
\* promise is deleted from currentPromises and the queue is checked.
Resume(i) ==
    /\ item[i].at \in {"resolved", "rejected"}
    /\ SetPool(checkQueue([PoolState EXCEPT
            !.it[i].at = IF item[i].at = "resolved" THEN "fulfilled" ELSE "failed",
            !.cur = @ \ {i}]))
    /\ PoolFrame

PoolNext ==
    \/ \E k \in HandlerKinds : Queue(k)
    \/ \E k1, k2 \in HandlerKinds : QueueList(k1, k2)
    \/ \E i \in ItemIds, ok \in BOOLEAN : HandlerSettle(i, ok)
    \/ \E i \in ItemIds : Resume(i)

InitPool ==
    ConnectorIdle /\ PoolInit /\ SeqInit /\ NestedInit /\ LoopIdle /\ RouteIdle /\ ClientIdle /\ MainIdle

SpecPool == InitPool /\ [][PoolNext]_vars

\* C3: at most parallelCount handler invocations are in flight (started and
\* not yet settled), in every state and at every instant inside the
\* synchronous run of queue() and of a completion.
C3_AtMostKInFlight ==
    /\ Cardinality(InFlight(item)) <= parallelCount
    /\ peak <= parallelCount

\* C3 witness: the pool is full again after a completion started an item
\* that had to wait, in a run where one handler threw synchronously and one
\* enqueued a further item.
C3_Witness ==
    /\ Cardinality(InFlight(item)) = parallelCount
    /\ peak = parallelCount
    /\ \E i \in ItemIds : item[i].kind = "throw" /\ item[i].at = "failed"
    /\ \E i \in ItemIds : item[i].kind = "spawn" /\ item[i].at \notin {"new", "queued"}
    /\ \E i, j \in ItemIds : i < j /\ item[i].at = "fulfilled" /\ item[j].at = "running"

\* C18: the handler invocations begin in enqueue order. The items are
\* numbered in the order of their queue() calls: the numbers of the items
\* whose handler was invoked, in the order of invocation, ascend.
C18_StartedInEnqueueOrder ==
    \A a, b \in 1..Len(started) : a < b => started[a] < started[b]

\* C18 witness: three handlers were invoked, the third for an item that
\* waited in the queue until an earlier one was over, while a fourth waits.
C18_Witness ==
    /\ Len(started) = 3
    /\ item[started[1]].at = "fulfilled"
    /\ item[started[3]].at = "running"
    /\ queueVal # <<>>

\* The items whose runNext is under way: the handler was invoked and the
\* promise is still in currentPromises.
Unfinished(it) == {i \in ItemIds : it[i].at \in {"running", "resolved", "rejected"}}

\* The length property of the method queue(...args): the number of its
\* parameters before the rest parameter.
queueMethodLength == 0

\* getQueueLength(): this.currentPromises.size + this.queue.length
getQueueLength == Cardinality(currentPromises) + queueMethodLength

\* C20: getQueueLength() is the number of handler invocations in flight
\* plus the number of items enqueued and not yet started.
C20_QueueLengthCountsAll ==
    getQueueLength = Cardinality(Unfinished(item)) + Len(queueVal)

-----------------------------------------------------------------------------
(* ParallelPool.flush *)

\* The promise of item i as flush() sees it.
PromiseState(it, i) ==
    CASE it[i].at = "fulfilled" -> "fulfilled"
      [] it[i].at = "failed" -> "rejected"
      [] OTHER -> "pending"

\* promise.catch(noop)
NotCaught(state) == state

Caught(state) == IF state = "rejected" THEN "fulfilled" ELSE state

\* flush() up to its await: the promises in flight and those of the queued
\* items are collected. One call of flush() is followed at a time.
Flush ==
    /\ flush.at \in {"idle", "resolved"}
    /\ flush' = [at |-> "waiting", snap |-> currentPromises \cup Range(queueVal),
                 enq |-> FALSE]
    /\ UNCHANGED <<queueVal, currentPromises, isChecking, item, peak, started>>
    /\ PoolFrame

\* Promise.all settles: rejected as soon as one of its inputs is, fulfilled
\* when all are.
FlushSettle ==
    /\ flush.at = "waiting"
    /\ LET inputs == {Caught(PromiseState(item, i)) : i \in flush.snap}
       IN  /\ "rejected" \in inputs \/ inputs \subseteq {"fulfilled"}
           /\ flush' = [flush EXCEPT !.at = IF "rejected" \in inputs
                                            THEN "rejected" ELSE "resolved"]
    /\ UNCHANGED <<queueVal, currentPromises, isChecking, item, peak, started>>
    /\ PoolFrame

\* The items a call of queue() with a handler of the kind k takes, and the
\* items taken so far: those enqueued and those the queued handlers will
\* enqueue when they are invoked.
Reserved(k) == IF k = "spawn" THEN 2 ELSE 1

Claimed ==
    Cardinality(ItemIds \ FreshItems(item))
        + Cardinality({i \in ItemIds : item[i].kind = "spawn" /\ item[i].at = "queued"})

\* queue() and queueList() while there is room for their items.
QueueInRoom(k) ==
    /\ Claimed + Reserved(k) <= MaxFlushItems
    /\ Queue(k)

QueueListInRoom(k1, k2) ==
    /\ Claimed + Reserved(k1) + Reserved(k2) <= MaxFlushItems
    /\ QueueList(k1, k2)

FlushNext ==
    \/ \E k \in HandlerKinds : QueueInRoom(k)
    \/ \E k1, k2 \in HandlerKinds : QueueListInRoom(k1, k2)
    \/ \E i \in ItemIds, ok \in BOOLEAN : HandlerSettle(i, ok)
    \/ \E i \in ItemIds : Resume(i)
    \/ Flush
    \/ FlushSettle

SpecFlush == InitPool /\ [][FlushNext]_vars

\* A step of the runtime: the promise of a running handler settles, or the
\* continuation of runNext after its await runs.
PoolProgress ==
    \E i \in ItemIds : HandlerSettle(i, TRUE) \/ HandlerSettle(i, FALSE) \/ Resume(i)

\* The pool where every handler invocation terminates and the runtime runs
\* what is due: while a promise can settle or a continuation can run, one
\* does.  The calls of queue() are the caller's.
PoolLiveNext ==
    \/ \E k \in HandlerKinds : QueueInRoom(k)
    \/ \E k1, k2 \in HandlerKinds : QueueListInRoom(k1, k2)
    \/ \E i \in ItemIds, ok \in BOOLEAN : HandlerSettle(i, ok)
    \/ \E i \in ItemIds : Resume(i)

SpecPoolLive ==
    /\ InitPool
    /\ [][PoolLiveNext]_vars
    /\ WF_vars(PoolProgress)

\* The future of item i is settled.
Settled(i) == item[i].at \in {"fulfilled", "failed"}

\* C36: the handler is invoked once for every item passed to queue(), and
\* the item's future is settled in the end with the outcome of that
\* invocation: rejected when the handler threw or its promise was rejected,
\* resolved when its promise was resolved; an invocation that failed holds
\* no slot, so the items behind it start.
C36_EveryItemSettles ==
    /\ [](\A m, n \in DOMAIN started : started[m] = started[n] => m = n)
    /\ [](\A i \in ItemIds : item[i].at \notin {"new", "queued"} <=> i \in Range(started))
    /\ [](\A i \in ItemIds : item[i].at = "failed" => i \notin currentPromises)
    /\ [](\A i \in ItemIds : (item[i].kind = "throw" /\ i \in Range(started)) =>
                                 item[i].at = "failed")
    /\ [][\A i \in ItemIds : Resume(i) =>
              item'[i].at = IF item[i].at = "resolved" THEN "fulfilled" ELSE "failed"]_vars
    /\ <>[](\A i \in ItemIds : item[i].at # "new" => Settled(i))

\* All slots were taken by handlers that threw, one after the other, and an
\* item queued behind them was started and its future resolved.
C36_Witness ==
    /\ Cardinality({i \in ItemIds : item[i].kind = "throw" /\ item[i].at = "failed"})
           >= parallelCount
    /\ \E j \in ItemIds :
           /\ item[j].at = "fulfilled"
           /\ \A i \in ItemIds : item[i].kind = "throw" => i < j

\* C19: flush() never rejects; when it has resolved, every item that was in
\* flight or pending at the call has settled; and if queue() was not called
\* since the call, no item is in flight or pending.
C19_FlushWaitsForAll ==
    /\ flush.at # "rejected"
    /\ flush.at = "resolved" =>
          /\ \A i \in flush.snap : item[i].at \in {"fulfilled", "failed"}
          /\ ~flush.enq =>
                /\ queueVal = <<>>
                /\ currentPromises = {}
                /\ \A i \in ItemIds : item[i].at \in {"new", "fulfilled", "failed"}

\* C19 witness: flush() was called with one item in flight and one pending,
\* a handler failed, nothing was enqueued since, and flush() has resolved.
C19_Witness ==
    /\ flush.at = "resolved"
    /\ ~flush.enq
    /\ Cardinality(flush.snap) >= 3
    /\ \E i \in flush.snap : item[i].at = "failed"

-----------------------------------------------------------------------------
(***************************************************************************)
(* Parallel.consequentially (utils/Parallel.ts)                            *)
(*                                                                         *)
(* The calls of the wrapper are numbered in the order they are made. A     *)
(* call is "none" (not made yet), "refused" (the wrapper threw), "queued"  *)
(* (its arguments are in state.queue), "running" (the callback has been    *)
(* invoked with its arguments and has not completed), "settled" or         *)
(* "failed" (the callback's promise has resolved or rejected and           *)
(* handleQueue has not resumed yet), "done", or "dropped" (its arguments   *)
(* were thrown away by cancel()).  A run of handleQueue is suspended at    *)
(* its await exactly while its call is running, settled or failed.  With   *)
(* each call go the arguments it passed (args) and the arguments the       *)
(* callback was invoked with for it (ran).                                 *)
(***************************************************************************)

\* The arguments a call passes.
ArgVals == {"a", "b"}

SeqState == [q |-> seqQueue, cl |-> call, ret |-> returnedLoops]

\* The check at the head of the queue handler.
NeverProcessing == FALSE

AlreadyProcessing == isProcessing

\* handleQueue from the head of its loop: the next arguments are shifted and
\* the callback is invoked with them; on an empty queue the function
\* returns, and on the null queue that cancel() leaves, shift throws and the
\* run ends with the flag still set.
handleQueue(st) ==
    IF seqNull
    THEN st
    ELSE IF st.q = <<>>
    THEN [st EXCEPT !.ret = @ + 1]
    ELSE [st EXCEPT !.q = Tail(@), !.cl[Head(st.q).id].at = "running",
                    !.cl[Head(st.q).id].ran = Head(st.q).args]

SeqFrame == UNCHANGED <<connectorVars, poolVars, nestedVars, loopVars, routeVars, clientVars, mainVars>>

\* wrapperCallback(...args): throws after cancel(); otherwise pushes the
\* arguments and calls the queue handler, which starts handleQueue unless
\* one is running.
Call(a) ==
    /\ seqHalt = "no"
    /\ calls < MaxCalls
    /\ calls' = calls + 1
    /\ IF isCanceled
       THEN /\ call' = [call EXCEPT ![calls + 1].at = "refused", ![calls + 1].args = a]
            /\ UNCHANGED <<seqQueue, isProcessing, returnedLoops>>
       ELSE LET st == [SeqState EXCEPT !.q = Append(@, [id |-> calls + 1, args |-> a]),
                                       !.cl[calls + 1].at = "queued",
                                       !.cl[calls + 1].args = a]
            IN  IF AlreadyProcessing
                THEN /\ seqQueue' = st.q
                     /\ call' = st.cl
                     /\ UNCHANGED <<isProcessing, returnedLoops>>
                ELSE /\ isProcessing' = TRUE
                     /\ seqQueue' = handleQueue(st).q
                     /\ call' = handleQueue(st).cl
                     /\ returnedLoops' = handleQueue(st).ret
    /\ UNCHANGED <<seqNull, isCanceled, seqHalt>>
    /\ SeqFrame

\* The promise of the callback invoked for call c resolves.
CallbackResolve(c) ==
    /\ seqHalt = "no"
    /\ call[c].at = "running"
    /\ call' = [call EXCEPT ![c].at = "settled"]
    /\ UNCHANGED <<seqQueue, seqNull, isCanceled, isProcessing, calls,
                   returnedLoops, seqHalt>>
    /\ SeqFrame

\* The callback invoked for call c throws or its promise rejects.
CallbackReject(c) ==
    /\ seqHalt = "no"
    /\ call[c].at = "running"
    /\ call' = [call EXCEPT ![c].at = "failed"]
    /\ UNCHANGED <<seqQueue, seqNull, isCanceled, isProcessing, calls,
                   returnedLoops, seqHalt>>
    /\ SeqFrame

\* handleQueue resumes after the await of call c: the loop goes on.
LoopResume(c) ==
    /\ seqHalt = "no"
    /\ call[c].at = "settled"
    /\ LET st == handleQueue([SeqState EXCEPT !.cl[c].at = "done"])
       IN  /\ seqQueue' = st.q
           /\ call' = st.cl
           /\ returnedLoops' = st.ret
    /\ UNCHANGED <<seqNull, isCanceled, isProcessing, calls, seqHalt>>
    /\ SeqFrame

\* handleQueue resumes in its catch block: the error is logged and the
\* process exits.
LoopExit(c) ==
    /\ seqHalt = "no"
    /\ call[c].at = "failed"
    /\ seqHalt' = "exit"
    /\ UNCHANGED <<seqQueue, seqNull, isCanceled, isProcessing, call, calls,
                   returnedLoops>>
    /\ SeqFrame

\* The queue handler resumes after `await this.handleQueue(state)`.
ClearProcessing ==
    /\ seqHalt = "no"
    /\ returnedLoops > 0
    /\ isProcessing' = FALSE
    /\ returnedLoops' = returnedLoops - 1
    /\ UNCHANGED <<seqQueue, seqNull, isCanceled, call, calls, seqHalt>>
    /\ SeqFrame

\* wrapperCallback.cancel()
Cancel ==
    /\ seqHalt = "no"
    /\ isCanceled' = TRUE
    /\ seqNull' = TRUE
    /\ seqQueue' = <<>>
    /\ call' = [c \in CallIds |->
                    IF call[c].at = "queued" THEN [call[c] EXCEPT !.at = "dropped"]
                    ELSE call[c]]
    /\ UNCHANGED <<isProcessing, calls, returnedLoops, seqHalt>>
    /\ SeqFrame

SeqNext ==
    \/ \E a \in ArgVals : Call(a)
    \/ \E c \in CallIds : CallbackResolve(c)
    \/ \E c \in CallIds : CallbackReject(c)
    \/ \E c \in CallIds : LoopResume(c)
    \/ \E c \in CallIds : LoopExit(c)
    \/ ClearProcessing
    \/ Cancel

InitSeq ==
    ConnectorIdle /\ PoolInit /\ SeqInit /\ NestedInit /\ LoopIdle /\ RouteIdle /\ ClientIdle /\ MainIdle

SpecSeq == InitSeq /\ [][SeqNext]_vars

\* The wrapper in a run where no callback fails and cancel() is not called.
\* Promise resolution and the microtasks of the loop are scheduled by the
\* runtime: each of them runs once it is due. The calls of the wrapper are
\* the caller's, and nothing makes the caller call again.
SeqNextLive ==
    \/ \E a \in ArgVals : Call(a)
    \/ \E c \in CallIds : CallbackResolve(c)
    \/ \E c \in CallIds : LoopResume(c)
    \/ ClearProcessing

SpecSeqLive ==
    /\ InitSeq
    /\ [][SeqNextLive]_vars
    /\ \A c \in CallIds : WF_vars(CallbackResolve(c)) /\ WF_vars(LoopResume(c))
    /\ WF_vars(ClearProcessing)

Begun(c) == call[c].at \in {"running", "settled", "failed", "done"}

Completed(c) == call[c].at \in {"settled", "failed", "done"}

\* C4: at most one invocation of f is in flight, and an invocation that is in
\* flight began after every earlier call's invocation completed: no earlier
\* call is still waiting or in flight.
C4_OneAtATimeInOrder ==
    /\ Cardinality({c \in CallIds : call[c].at = "running"}) <= 1
    /\ \A j \in CallIds : call[j].at = "running" =>
          \A k \in CallIds : k < j => call[k].at \notin {"queued", "running"}
    /\ \A j, k \in CallIds : k < j /\ Begun(j) /\ call[k].at # "refused" /\ call[k].at # "dropped"
                                => Completed(k)

\* C4 witness: the second call's invocation is in flight after the first has
\* completed, and a third call made meanwhile waits.
C4_Witness ==
    /\ call[1].at = "done"
    /\ call[2].at = "running"
    /\ call[3].at = "queued"

\* C5: every call whose arguments are enqueued is eventually followed by the
\* invocation of the callback with them (no callback fails, cancel() is
\* never called).
C5_EveryCallIsServed ==
    \A c \in CallIds : (call[c].at = "queued") ~> (Begun(c) /\ call[c].ran = call[c].args)

\* The arguments of a call are enqueued while no run of handleQueue exists
\* and none is about to be started.
Stranded ==
    /\ seqQueue # <<>>
    /\ ~isProcessing
    /\ returnedLoops = 0
    /\ \A c \in CallIds : call[c].at \notin {"running", "settled", "failed"}

\* wrapperCallback.getQueueLength()
wrapperGetQueueLength == IF seqNull THEN 0 ELSE Len(seqQueue)

\* C37: once cancel() was called no invocation of the callback begins,
\* getQueueLength() is 0 and every call of the wrapper throws; an
\* invocation that was in flight at the cancel completes, and the run of
\* handleQueue that awaited it then returns: it ends without an error.
C37_CancelEndsTheLoop ==
    /\ [](isCanceled => wrapperGetQueueLength = 0)
    /\ [][isCanceled =>
              \A c \in CallIds : call'[c].at = "running" => call[c].at = "running"]_vars
    /\ [][\A a \in ArgVals : (Call(a) /\ isCanceled) => call'[calls + 1].at = "refused"]_vars
    /\ [][\A c \in CallIds : (LoopResume(c) /\ isCanceled) =>
              /\ call'[c].at = "done"
              /\ returnedLoops' = returnedLoops + 1]_vars

-----------------------------------------------------------------------------
(***************************************************************************)
(* Basic: nested services (services/Basic.ts, addNested, startNested,      *)
(* stopNested, done)                                                       *)
(*                                                                         *)
(* The children are numbered in the order they are registered. A call of   *)
(* start() or stop() on the parent is a run of startNested or stopNested:  *)
(* its for-of loop walks the live array nestedServices by index (idx) and  *)
(* is suspended while it awaits the start() or stop() of the child at idx. *)
(* log is the history of the run: the children it called, in order.        *)
(***************************************************************************)

NestedFrame == UNCHANGED <<connectorVars, poolVars, seqVars, loopVars, routeVars, clientVars, mainVars>>

\* A call takes the first free slot.
FreeProc(p) ==
    /\ proc[p].kind = "idle"
    /\ p = "p2" => proc["p1"].kind # "idle"

\* addNested(service). The children are registered by the owner's
\* constructor or between its calls (BasicMain's class comment), not while a
\* run of startNested or stopNested is suspended.
AddNested ==
    /\ Len(registered) < MaxChildren
    /\ \A p \in ProcIds : proc[p].at # "awaiting"
    /\ nestedServices' = Append(nestedServices, Len(registered) + 1)
    /\ registered' = Append(registered, Len(registered) + 1)
    /\ UNCHANGED <<doneFlag, proc, ops, stopCalls>>
    /\ NestedFrame

\* done() of a registered child
Done(c) ==
    /\ c \in Range(registered)
    /\ ~doneFlag[c]
    /\ doneFlag' = [doneFlag EXCEPT ![c] = TRUE]
    /\ UNCHANGED <<nestedServices, registered, proc, ops, stopCalls>>
    /\ NestedFrame

\* The array that stopNested walks.
ReversedInPlace(ns) == Reverse(ns)

\* The first index from i on whose child is not done: the next child
\* stopNested calls stop() on; Len(ns) + 1 when there is none.
RECURSIVE NextToStop(_, _)
NextToStop(ns, i) ==
    IF i > Len(ns) THEN i
    ELSE IF ~doneFlag[ns[i]] THEN i
    ELSE NextToStop(ns, i + 1)

\* The loop of startNested from index i: start() of the child there is
\* called and awaited, or the loop is over.
StartFrom(run, ns, i) ==
    IF i > Len(ns)
    THEN [run EXCEPT !.at = "finished", !.idx = 0]
    ELSE [run EXCEPT !.at = "awaiting", !.idx = i, !.log = Append(@, ns[i])]

\* The loop of stopNested from index i: the done children are passed over,
\* stop() of the next child is called and awaited, or the loop is over.
StopFrom(run, ns, i) ==
    LET j == NextToStop(ns, i)
    IN  IF j > Len(ns)
        THEN [run EXCEPT !.at = "finished", !.idx = 0]
        ELSE [run EXCEPT !.at = "awaiting", !.idx = j, !.log = Append(@, ns[j])]

\* The stop() invocations of the children after the run went on to `run`.
CountStop(run) ==
    IF run.kind = "stop" /\ run.at = "awaiting"
    THEN [stopCalls EXCEPT ![Head(Reverse(run.log))] = @ + 1]
    ELSE stopCalls

\* start() of the parent: startNested up to its first await.
StartNested(p) ==
    /\ FreeProc(p)
    /\ ops < MaxOps
    /\ ops' = ops + 1
    /\ proc' = [proc EXCEPT ![p] =
                   StartFrom([IdleProc EXCEPT !.kind = "start"], nestedServices, 1)]
    /\ UNCHANGED <<nestedServices, registered, doneFlag, stopCalls>>
    /\ NestedFrame

\* stop() of the parent (a call, or the SIGINT handler of stopOnExit):
\* stopNested up to its first await.
StopNested(p) ==
    /\ FreeProc(p)
    /\ ops < MaxOps
    /\ ops' = ops + 1
    /\ nestedServices' = ReversedInPlace(nestedServices)
    /\ LET run == StopFrom([IdleProc EXCEPT !.kind = "stop"], nestedServices', 1)
       IN  /\ proc' = [proc EXCEPT ![p] = run]
           /\ stopCalls' = CountStop(run)
    /\ UNCHANGED <<registered, doneFlag>>
    /\ NestedFrame

\* The start() or stop() of the child a run awaits resolves: the loop goes
\* on with the next index of the array as it is now.
ChildResolve(p) ==
    /\ proc[p].at = "awaiting"
    /\ LET run == IF proc[p].kind = "start"
                  THEN StartFrom(proc[p], nestedServices, proc[p].idx + 1)
                  ELSE StopFrom(proc[p], nestedServices, proc[p].idx + 1)
       IN  /\ proc' = [proc EXCEPT ![p] = run]
           /\ stopCalls' = CountStop(run)
    /\ UNCHANGED <<nestedServices, registered, doneFlag, ops>>
    /\ NestedFrame

\* The start() or stop() of the child a run awaits rejects with e: the await
\* throws e out of the loop and the run rejects with it.
ChildReject(p, e) ==
    /\ proc[p].at = "awaiting"
    /\ proc' = [proc EXCEPT ![p].at = "failed", ![p].idx = 0, ![p].err = e]
    /\ UNCHANGED <<nestedServices, registered, doneFlag, ops, stopCalls>>
    /\ NestedFrame

\* The slot of a run that is over is taken for the next call.
ProcRelease(p) ==
    /\ proc[p].at \in {"finished", "failed"}
    /\ proc' = [proc EXCEPT ![p] = IdleProc]
    /\ UNCHANGED <<nestedServices, registered, doneFlag, ops, stopCalls>>
    /\ NestedFrame

NestedNext ==
    \/ AddNested
    \/ \E c \in Children : Done(c)
    \/ \E p \in ProcIds : StartNested(p)
    \/ \E p \in ProcIds : StopNested(p)
    \/ \E p \in ProcIds : ChildResolve(p)
    \/ \E p \in ProcIds, e \in ChildErrors : ChildReject(p, e)
    \/ \E p \in ProcIds : ProcRelease(p)

InitNested ==
    ConnectorIdle /\ PoolInit /\ SeqInit /\ NestedInit /\ LoopIdle /\ RouteIdle /\ ClientIdle /\ MainIdle

SpecNested == InitNested /\ [][NestedNext]_vars

\* The children are numbered in registration order.
InRegistrationOrder(log) ==
    \A a, b \in 1..Len(log) : a < b => log[a] < log[b]

InReverseRegistrationOrder(log) ==
    \A a, b \in 1..Len(log) : a < b => log[a] > log[b]

\* C6: over any sequence of stop() calls on the parent, the stop() of each
\* nested service is invoked at most once.
C6_StoppedAtMostOnce ==
    \A c \in Children : stopCalls[c] <= 1

\* A run of stopNested that is over has called stop() on every child that
\* is not done.
StoppedAllNotDone(run) ==
    \A c \in Range(registered') : ~doneFlag'[c] => c \in Range(run.log)

\* C7: a run of stopNested calls stop() on the children in the reverse of
\* their registration order, and at the moment it is over every child that
\* is not done has been stopped by it.
C7_StopInReverseOrder ==
    /\ [](\A p \in ProcIds : proc[p].kind = "stop" =>
              InReverseRegistrationOrder(proc[p].log))
    /\ [][\A p \in ProcIds :
              (proc'[p].kind = "stop" /\ proc'[p].at = "finished"
                   /\ proc[p].at # "finished")
              => StoppedAllNotDone(proc'[p])]_vars

\* C8: a run of startNested calls start() on the children in registration
\* order, one after the other: what it has called so far is a prefix of the
\* children as registered.
C8_StartInRegistrationOrder ==
    \A p \in ProcIds : proc[p].kind = "start" => IsPrefix(proc[p].log, registered)

\* C21: when the start() of a child rejects with e, the parent's start()
\* rejects with e, and of the children registered after the failing one
\* none has been started by it.
C21_StartFailureAborts ==
    /\ [][\A p \in ProcIds, e \in ChildErrors :
              (ChildReject(p, e) /\ proc[p].kind = "start") =>
                  /\ proc'[p].at = "failed"
                  /\ proc'[p].err = e
                  /\ proc'[p].log = proc[p].log]_vars
    /\ [](\A p \in ProcIds :
              (proc[p].kind = "start" /\ proc[p].at = "failed") =>
                  LET failing == proc[p].log[Len(proc[p].log)]
                  IN  \A c \in Range(proc[p].log) : c <= failing)

\* C38: stopNested leaves the sequence of the nested services as it was:
\* after a stop the services are still held in registration order, so that
\* a following start walks them in that order and a following stop in the
\* reverse of it.
C38_StopKeepsTheSequence ==
    /\ [][\A p \in ProcIds : StopNested(p) => nestedServices' = nestedServices]_vars
    /\ [](nestedServices = registered)

-----------------------------------------------------------------------------
(***************************************************************************)
(* Basic: the iteration loop (services/Basic.ts, startLoop, stopLoop,      *)
(* runIteration, handleIteration)                                          *)
(*                                                                         *)
(* The startLoop calls are numbered; the interval timer a call installs    *)
(* carries the call's number. An iteration is "new", "running" (the call   *)
(* of iteration() has begun and has not ended) or "ended"; `from` is the   *)
(* startLoop call it belongs to, `first` says that the setTimeout callback *)
(* began it, `guard` that its runIteration took the exclusive guard.       *)
(***************************************************************************)

LoopFrame == UNCHANGED <<connectorVars, poolVars, seqVars, nestedVars, routeVars, clientVars, mainVars>>

Running == {i \in IterIds : iter[i].at = "running"}

\* The value of exclusiveIterationInProcess when an exclusive iteration is
\* over: the finally block of runIteration clears it, thrown or not.
GuardAfterNoFinally(threw) == threw

GuardAfter(threw) == FALSE

\* startLoop(firstIterationTimeout, interval)
StartLoop ==
    /\ loops < MaxLoops
    /\ loops' = loops + 1
    /\ timeouts' = timeouts \cup {loops + 1}
    /\ stopRequested' = FALSE
    /\ UNCHANGED <<allowParallelIterations, throwOnIterationError,
                   exclusiveIterationInProcess, loopId, intervals, iter, begun,
                   dropped, lastEnd>>
    /\ LoopFrame

\* stopLoop()
StopLoop ==
    /\ loops > 0
    /\ intervals' = intervals \ {loopId}
    /\ stopRequested' = TRUE
    /\ UNCHANGED <<allowParallelIterations, throwOnIterationError,
                   exclusiveIterationInProcess, loopId, timeouts, loops, iter,
                   begun, dropped, lastEnd>>
    /\ LoopFrame

\* runIteration up to its await, on behalf of the startLoop call L: whether
\* an iteration begins, and with the guard or without.
Begins == allowParallelIterations \/ ~exclusiveIterationInProcess

BeginIteration(L, first) ==
    /\ begun < MaxIterations
    /\ begun' = begun + 1
    /\ iter' = [iter EXCEPT ![begun + 1] =
                   [at |-> "running", from |-> L, first |-> first,
                    guard |-> ~allowParallelIterations]]
    /\ exclusiveIterationInProcess' =
           IF allowParallelIterations THEN exclusiveIterationInProcess ELSE TRUE

\* The timer of the first iteration of the startLoop call L fires. When the
\* guard is taken runIteration returns at once and the interval is installed.
TimeoutFire(L) ==
    /\ L \in timeouts
    /\ timeouts' = timeouts \ {L}
    /\ IF Begins
       THEN /\ BeginIteration(L, TRUE)
            /\ UNCHANGED <<loopId, intervals>>
       ELSE /\ loopId' = L
            /\ intervals' = intervals \cup {L}
            /\ UNCHANGED <<iter, begun, exclusiveIterationInProcess>>
    /\ UNCHANGED <<allowParallelIterations, throwOnIterationError, loops,
                   stopRequested, dropped, lastEnd>>
    /\ LoopFrame

\* The interval timer T ticks.
Tick(T) ==
    /\ T \in intervals
    /\ IF Begins
       THEN /\ BeginIteration(T, FALSE)
            /\ UNCHANGED dropped
       ELSE /\ dropped' = TRUE
            /\ UNCHANGED <<iter, begun, exclusiveIterationInProcess>>
    /\ UNCHANGED <<allowParallelIterations, throwOnIterationError, loopId,
                   timeouts, intervals, loops, stopRequested, lastEnd>>
    /\ LoopFrame

\* iteration() of the running iteration i ends, returning or throwing.
\* handleIteration swallows the error unless throwOnIterationError,
\* runIteration releases the guard it took, and the setTimeout callback
\* goes on to install the interval unless runIteration threw.
IterationEnd(i, threw) ==
    /\ iter[i].at = "running"
    /\ iter' = [iter EXCEPT ![i].at = "ended"]
    /\ lastEnd' = IF threw THEN "threw" ELSE "returned"
    /\ exclusiveIterationInProcess' =
           IF iter[i].guard THEN GuardAfter(threw) ELSE exclusiveIterationInProcess
    /\ IF iter[i].first /\ ~(threw /\ throwOnIterationError)
       THEN /\ loopId' = iter[i].from
            /\ intervals' = intervals \cup {iter[i].from}
       ELSE UNCHANGED <<loopId, intervals>>
    /\ UNCHANGED <<allowParallelIterations, throwOnIterationError, timeouts,
                   loops, begun, stopRequested, dropped>>
    /\ LoopFrame

LoopNext ==
    \/ StartLoop
    \/ StopLoop
    \/ \E L \in 1..MaxLoops : TimeoutFire(L)
    \/ \E T \in 1..MaxLoops : Tick(T)
    \/ \E i \in IterIds, threw \in BOOLEAN : IterationEnd(i, threw)

InitLoop ==
    ConnectorIdle /\ PoolInit /\ SeqInit /\ NestedInit /\ LoopInit /\ RouteIdle /\ ClientIdle /\ MainIdle

SpecLoop == InitLoop /\ [][LoopNext]_vars

\* C9: once stopLoop() has returned (and startLoop() has not been called
\* again), no iteration begins.
C9_NoIterationAfterStop ==
    [][stopRequested => begun' = begun]_vars

\* C10: with allowParallelIterations = false at most one iteration is in
\* flight; the guard is taken exactly while one is, so it is released when
\* the iteration ends, returned or thrown; and a tick that finds an
\* iteration in flight begins none and leaves nothing behind that would run
\* it later (it changes the history flag `dropped` only).
C10_ExclusiveIterations ==
    /\ [](~allowParallelIterations =>
              /\ Cardinality(Running) <= 1
              /\ exclusiveIterationInProcess <=> Running # {})
    /\ [][(~allowParallelIterations /\ Running # {} /\ \E T \in 1..MaxLoops : Tick(T))
              => UNCHANGED <<exclusiveIterationInProcess, loopId, timeouts,
                             intervals, loops, iter, begun>>]_vars

\* C10 witness: in exclusive mode a tick was dropped, an iteration ended by
\* throwing, and a later tick began the iteration now in flight.
C10_Witness ==
    /\ ~allowParallelIterations
    /\ dropped
    /\ lastEnd = "threw"
    /\ Running # {}

-----------------------------------------------------------------------------
(***************************************************************************)
(* Connector: the start of the server.  startServer compiles every route   *)
(* of serverRoutes, adds the route _ping and hands the table to the        *)
(* JSON-RPC server.                                                        *)
(***************************************************************************)

ServerFrame ==
    UNCHANGED <<connectorVars, poolVars, seqVars, nestedVars, loopVars, clientVars, mainVars>>

\* normalizeRoutes for the names from position i on: the config object is
\* compiled once for every name that holds it.
RECURSIVE CompileFrom(_, _, _, _)
CompileFrom(raw, i, cfg, types) ==
    IF i > Len(ConfigRouteNames) THEN [config |-> cfg, types |-> types, hangs |-> FALSE]
    ELSE IF ConfigRouteNames[i] \notin raw THEN CompileFrom(raw, i + 1, cfg, types)
    ELSE IF tryApplyConfigInheritsHangs(cfg, types)
    THEN [config |-> cfg, types |-> types, hangs |-> TRUE]
    ELSE LET r == tryApplyConfigInherits(cfg, types)
         IN  CompileFrom(raw, i + 1, r.config, r.types)

\* The table of normalizeRoutes: every route is wrapped, around the config
\* or around the function serverRoutes gave for it.
normalizeRoutes(raw) ==
    [name \in raw |-> IF name = PingRoute THEN "wrapped user function"
                      ELSE "wrapped config"]

\* A route _ping of serverRoutes is kept.
injectPingRouteIfAbsent(table) ==
    [name \in DOMAIN table \cup {PingRoute} |->
        IF name \in DOMAIN table THEN table[name] ELSE "injected"]

injectPingRoute(table) ==
    [name \in DOMAIN table \cup {PingRoute} |->
        IF name = PingRoute THEN "injected" ELSE table[name]]

\* startServer: when the compilation of the routes runs on, the call never
\* returns and nothing else of the process runs any more.
StartServer ==
    /\ ~exited
    /\ server # "resolving"
    /\ starts < MaxStarts
    /\ LET r == CompileFrom(rawRoutes, 1, routeConfig, serverTypes)
       IN  IF r.hangs
           THEN /\ server' = "resolving"
                /\ UNCHANGED <<routeConfig, serverTypes, routes, starts>>
           ELSE /\ routeConfig' = r.config
                /\ serverTypes' = r.types
                /\ routes' = injectPingRoute(normalizeRoutes(rawRoutes))
                /\ starts' = starts + 1
                /\ server' = "listening"
    /\ UNCHANGED <<original, rawRoutes, pong>>
    /\ ServerFrame

\* stop(): the listener is closed when there is one.
Stop ==
    /\ ~exited
    /\ server # "resolving"
    /\ server' = IF server = "none" THEN "none" ELSE "closed"
    /\ UNCHANGED <<routeConfig, original, serverTypes, rawRoutes, routes, starts, pong>>
    /\ ServerFrame

\* The params of a request for _ping, and what the evaluation of a payload
\* may do.
PingParams == {"empty", "payload"}

\* The payload is code of the caller run in the scope of the handler: of
\* all it can do, it returns, throws, calls the callback itself, or ends
\* the process.
EvalOutcomes == {"returns", "throws", "calls back", "exits"}

\* The answer of the injected handler.
PingAnswer == [state |-> "answered", calls |-> 1, status |-> "OK", alias |-> ConnectorAlias]

\* The injected handler for params p: what the caller gets and whether the
\* process is ended.
pingHandler(p, o) ==
    IF p = "payload" /\ o = "throws"
    THEN [pong |-> [NoPong EXCEPT !.state = "threw"], exit |-> FALSE]
    ELSE IF p = "payload" /\ o = "exits"
    THEN [pong |-> NoPong, exit |-> TRUE]
    ELSE IF p = "payload" /\ o = "calls back"
    THEN [pong |-> [state |-> "answered", calls |-> 2, status |-> "payload", alias |-> "payload"],
          exit |-> FALSE]
    ELSE [pong |-> PingAnswer, exit |-> FALSE]

\* The route _ping is called with params p; o is what eval does when the
\* params carry a payload.
PingDispatch(p, o) ==
    /\ ~exited
    /\ server # "resolving"
    /\ PingRoute \in DOMAIN routes
    /\ routes[PingRoute] = "injected"
    /\ pong' = pingHandler(p, o).pong
    /\ exited' = pingHandler(p, o).exit
    /\ UNCHANGED <<routeConfig, original, serverTypes, rawRoutes, routes, starts, server>>
    /\ UNCHANGED <<clientsMap, replaced, externalCallsMetrics, pending, issued, callStats, ended>>
    /\ UNCHANGED <<connectorVars, poolVars, seqVars, nestedVars, loopVars, mainVars>>

ServerNext ==
    \/ StartServer
    \/ Stop
    \/ \E p \in PingParams, o \in EvalOutcomes : PingDispatch(p, o)

ServerInit ==
    /\ routeConfig \in RouteConfigs
    /\ serverTypes \in ValidationTypeSets
    /\ original = [config |-> routeConfig, types |-> serverTypes]
    /\ rawRoutes \in RawRouteSets
    /\ routes = NoKeys
    /\ starts = 0
    /\ pong = NoPong
    /\ server = "none"

InitServer ==
    ConnectorIdle /\ PoolInit /\ SeqInit /\ NestedInit /\ LoopIdle /\ ServerInit /\ ClientIdle /\ MainIdle

SpecServer == InitServer /\ [][ServerNext]_vars

-----------------------------------------------------------------------------
(* Claims about the compilation of a route *)

Own == original.config.validation

\* The config was compiled, once or more.
Compiled == starts >= 1 /\ ~original.config.fn

\* The config was compiled exactly once.
CompiledOnce == Compiled /\ starts = 1 /\ "copy" \notin rawRoutes

\* The shapes of the params of a request, and what the keywords `type` and
\* `additionalProperties` of a schema admit of them.
Shapes == {"object", "object with undeclared properties", "array", "string", "null"}

TypeOf(shape) == IF shape = "object with undeclared properties" THEN "object" ELSE shape

\* The names a `type` value holds.
TypeSet(t) ==
    IF t.kind = "array" THEN {t.a[j].s : j \in DOMAIN t.a}
    ELSE IF t.kind = "scalar" THEN {t.s} ELSE {}

Admits(schema, shape) ==
    /\ Has(schema, "type") => TypeOf(shape) \in TypeSet(schema.o["type"])
    /\ shape = "object with undeclared properties" =>
           Get(schema, "additionalProperties") # Scalar("false")

\* C22: a route with a validation of its own is compiled, and its schema
\* has type "object" and additionalProperties false wherever its own
\* validation does not set the key, whatever its parents say; where it sets
\* neither, only objects without undeclared properties are admitted.
C22_StrictDefaults ==
    (Compiled /\ JsTruthy(Own)) =>
        /\ routeConfig.validator.kind = "object"
        /\ Has(Own, "type") \/ Get(routeConfig.validator, "type") = Scalar("object")
        /\ Has(Own, "additionalProperties")
               \/ Get(routeConfig.validator, "additionalProperties") = Scalar("false")
        /\ (~Has(Own, "type") /\ ~Has(Own, "additionalProperties")) =>
               \A shape \in Shapes :
                   Admits(routeConfig.validator, shape) => shape = "object"

\* A route that sets neither key was compiled under a parent that sets both.
C22_Witness ==
    /\ Compiled
    /\ Has(Own, "required")
    /\ original.config.inherits = Strs(<<"auth", "loose">>)
    /\ Get(routeConfig.validator, "type") = Scalar("object")
    /\ Get(routeConfig.validator, "additionalProperties") = Scalar("false")

\* The parents a config names, in the order of its list.
ParentsOf(cfg) ==
    IF cfg.inherits.kind = "array"
    THEN [j \in DOMAIN cfg.inherits.a |-> Parents[cfg.inherits.a[j].s]]
    ELSE <<>>

\* The stages of the parents, one parent after the other.
RECURSIVE StagesOf(_, _)
StagesOf(parents, field) ==
    IF parents = <<>> THEN <<>>
    ELSE StagesOf(SubSeq(parents, 1, Len(parents) - 1), field)
             \o parents[Len(parents)][field]

\* What the route itself says, its defaults included.
OwnEffective ==
    IF JsTruthy(Own) THEN merge(getDefaultValidationInherits, Own) ELSE Object(NoKeys)

\* The values the sources give for a key: the parents in the order of the
\* list, then the route.
Sources(key) ==
    LET ps == ParentsOf(original.config)
        all == [j \in 1..(Len(ps) + 1) |->
                   IF j <= Len(ps) THEN ps[j].validation ELSE OwnEffective]
    IN  SelectSeq([j \in DOMAIN all |-> Get(all[j], key)], LAMBDA v : v.kind # "undefined")

\* The keys the walk for custom types leaves alone.
PlainKeys == {"type", "additionalProperties", "required", "maxProperties"}

RECURSIVE Kept(_)
Kept(srcs) ==
    IF Len(srcs) = 1 THEN srcs[1]
    ELSE LET acc == Kept(SubSeq(srcs, 1, Len(srcs) - 1))
             last == srcs[Len(srcs)]
         IN  IF acc.kind = "array" /\ last.kind = "array"
             THEN Array(acc.a \o last.a) ELSE last

C24_RecompilationIsNoOp ==
    Compiled =>
        LET once == tryApplyConfigInherits(original.config, original.types).config
        IN  /\ routeConfig.before = once.before
            /\ routeConfig.after = once.after
            /\ routeConfig.validation = once.validation
            /\ routeConfig.validator = once.validator

\* The nodes of a validation the walk for custom types reaches, with the
\* path of each.
RECURSIVE NodesAt(_, _)
ChildrenOf(v, path) ==
    UNION { IF v.o[k].kind = "object" /\ k = "items"
            THEN {[path |-> path \o <<k>>, node |-> v.o[k]]}
            ELSE IF v.o[k].kind = "object"
            THEN {[path |-> path \o <<k, kk>>, node |-> v.o[k].o[kk]] : kk \in DOMAIN v.o[k].o}
            ELSE IF v.o[k].kind = "array"
            THEN {[path |-> path \o <<k, ToString(j)>>, node |-> v.o[k].a[j]] :
                      j \in DOMAIN v.o[k].a}
            ELSE {} : k \in DOMAIN v.o \cap (InnerKeys \cup {"items"}) }

NodesAt(v, path) ==
    IF v.kind # "object" THEN {}
    ELSE LET children == ChildrenOf(v, path)
         IN  children \cup UNION {NodesAt(c.node, c.path) : c \in children}

\* The built-in types reached from a set of names in at most k steps
\* through the definitions of the custom types.
RECURSIVE Reach(_, _, _)
Reach(names, types, k) ==
    IF k = 0 THEN names
    ELSE Reach(UNION { IF Has(types, n) THEN TypeSet(Get(types.o[n], "type")) ELSE {n} :
                           n \in names }, types, k - 1)

\* C25: with custom types given, every node of the compiled validation has
\* a type that names no custom type, holds no name twice and is a scalar
\* when it holds one name; after one compilation it holds the built-in
\* types reachable from the names the node had.
C25_CustomTypesResolved ==
    (Compiled /\ original.types.kind = "object" /\ routeConfig.validator.kind = "object") =>
        /\ \A n \in NodesAt(routeConfig.validator, <<>>) :
               LET t == Get(n.node, "type")
               IN  /\ TypeSet(t) \cap DOMAIN original.types.o = {}
                   /\ t.kind = "array" =>
                          /\ Len(t.a) >= 2
                          /\ \A i, j \in DOMAIN t.a : t.a[i] = t.a[j] => i = j
        /\ CompiledOnce =>
               \A m \in NodesAt(applyDefaultsAndInherits(original.config).validation, <<>>) :
                   \E n \in NodesAt(routeConfig.validator, <<>>) :
                       /\ n.path = m.path
                       /\ TypeSet(Get(n.node, "type")) =
                              Reach(TypeSet(Get(m.node, "type")), original.types,
                                    Len(TypeNames))

\* The property `message` of type message, with message -> stringOrNull ->
\* [string, null], was compiled.
C25_Witness ==
    /\ CompiledOnce
    /\ Get(Get(Own, "properties"), "message") = Object("type" :> Scalar("message"))
    /\ Get(Get(routeConfig.validator, "properties"), "message") =
           Object(("type" :> Strs(<<"string", "null">>)) @@ ("maxLength" :> Scalar("100")))

\* C30: a started server has the route _ping, the connector's own also when
\* serverRoutes names one, and every call of it answers {status: "OK",
\* alias} with the connector's alias.
C30_PingInjected ==
    /\ [][StartServer /\ server' = "listening" =>
              (PingRoute \in DOMAIN routes' /\ routes'[PingRoute] = "injected")]_vars
    /\ [][\A p \in PingParams, o \in EvalOutcomes :
              PingDispatch(p, o) =>
                  pong' = [state |-> "answered", calls |-> 1, status |-> "OK",
                           alias |-> ConnectorAlias]]_vars

\* C31: a call of _ping invokes the callback once with {status: "OK",
\* alias} and changes nothing else, whatever its params are and whatever a
\* payload in them says: the params make no difference.
C31_PingIgnoresParams ==
    [][\A p \in PingParams, o \in EvalOutcomes :
           PingDispatch(p, o) =>
               /\ pong'.calls = 1
               /\ pong' = pingHandler("empty", o).pong
               /\ UNCHANGED <<routeConfig, serverTypes, routes, clientVars, connectorVars>>]_vars

\* C33: the resolution of the custom types comes to its end for every
\* validationTypes, those with a type that names itself or with types that
\* name each other included: startServer is never left in the loop over a
\* type array.
C33_ResolutionTerminates ==
    server # "resolving"

\* C34: a keyword a node defines keeps the node's value when a custom type
\* that has the keyword too is substituted at the node, also when the value
\* is falsy (0, false, ""): the custom type's value is copied only where
\* the node does not define the keyword.
C34_NodeKeywordsKept ==
    (CompiledOnce /\ original.types.kind = "object" /\ routeConfig.validator.kind = "object") =>
        \A m \in NodesAt(applyDefaultsAndInherits(original.config).validation, <<>>) :
            \A n \in NodesAt(routeConfig.validator, <<>>) :
                n.path = m.path =>
                    \A key \in DOMAIN m.node.o \ {"type"} :
                        m.node.o[key].kind = "scalar" =>
                            Get(n.node, key) = m.node.o[key]

\* C35: a route without a validation of its own that inherits one from its
\* parents is compiled under the strict defaults: its schema has type
\* "object" and additionalProperties false, so that only objects without
\* undeclared properties are admitted.
C35_InheritedValidationIsStrict ==
    (/\ Compiled
     /\ ~JsTruthy(Own)
     /\ original.config.inherits.kind = "array"
     /\ original.config.inherits.a # <<>>) =>
        /\ routeConfig.validator.kind = "object"
        /\ Get(routeConfig.validator, "type") = Scalar("object")
        /\ Get(routeConfig.validator, "additionalProperties") = Scalar("false")
        /\ \A shape \in Shapes : Admits(routeConfig.validator, shape) => shape = "object"

-----------------------------------------------------------------------------
(***************************************************************************)
(* Connector: the clients.  addService registers a client under an alias   *)
(* and, when asked, probes the peer with _ping; sendTo and callService     *)
(* issue requests through the registered clients.                          *)
(***************************************************************************)

\* The connect strings; new URL() throws for the last one.
ConnectStrings == {"http://x", "http://y", "not a url"}

ValidUrl(connect) == connect # "not a url"

\* connectConfig.originRemoteAlias: "none" when the config is a string or
\* leaves it out.
OriginAliases == {"none"} \cup Aliases

\* The params of callService by what they are, and typeof of each.
ParamKinds == {"string", "number", "boolean", "undefined", "null", "array", "object"}

Typeof(params) == IF params \in {"null", "array"} THEN "object" ELSE params

\* What comes back for a request: a transport error, a response with an
\* error member, or a response whose result names the alias of the peer.
Responses ==
    { [kind |-> "transport error", alias |-> "none"],
      [kind |-> "rpc error", alias |-> "none"] } \cup
    { [kind |-> "ended", alias |-> x] : x \in OriginAliases }

Ended(op, outcome, error) == [op |-> op, outcome |-> outcome, error |-> error]

ClientFrame ==
    UNCHANGED <<connectorVars, poolVars, seqVars, nestedVars, loopVars, routeVars, mainVars>>

\* The probe of checkOriginRequiredClient in the revision that ends the
\* process when the peer is another one or cannot be reached.
checkOriginOrExit(response, originRemoteAlias) ==
    IF response.kind = "ended" /\ response.alias = originRemoteAlias
    THEN [log |-> "none", exit |-> FALSE]
    ELSE [log |-> "fatal", exit |-> TRUE]

\* checkOriginRequiredClient once the call of _ping is over: what is logged
\* and whether the process is ended.
checkOriginRequiredClient(response, originRemoteAlias) ==
    IF response.kind # "ended"
    THEN [log |-> "cant establish connection", exit |-> FALSE]
    ELSE IF response.alias # originRemoteAlias
    THEN [log |-> "gain response from another service", exit |-> FALSE]
    ELSE [log |-> "none", exit |-> FALSE]

\* sendTo without a client in the revision that ends the process.
unknownServiceExit == [outcome |-> "none", error |-> "none", exit |-> TRUE]

\* sendTo without a client for the alias.
unknownService == [outcome |-> "rejected", error |-> "unknown service", exit |-> FALSE]

\* addService that leaves an alias it knows alone.
setIfAbsent(map, service, client) ==
    IF service \in DOMAIN map THEN map
    ELSE [s \in DOMAIN map \cup {service} |-> IF s = service THEN client ELSE map[s]]

\* this.clientsMap.set(service, client)
set(map, service, client) ==
    [s \in DOMAIN map \cup {service} |-> IF s = service THEN client ELSE map[s]]

\* client.request(method, data, callback) for the call `via` of the API.
Request(service, via, origin) ==
    /\ issued < MaxRequests
    /\ issued' = issued + 1
    /\ pending' = pending \cup
           {[id |-> issued + 1, alias |-> service, via |-> via, origin |-> origin]}

\* addService(service, connectConfig)
AddService(service, connect, origin) ==
    /\ ~exited
    /\ IF ~ValidUrl(connect)
       THEN /\ ended' = Ended("addService", "rejected", "TypeError")
            /\ UNCHANGED <<clientsMap, replaced, pending, issued>>
       ELSE /\ clientsMap' = set(clientsMap, service, connect)
            /\ replaced' = (service \in DOMAIN clientsMap /\ clientsMap[service] # connect)
            /\ IF origin # "none"
               THEN /\ Request(service, "addService", origin)
                    /\ UNCHANGED ended
               ELSE /\ ended' = Ended("addService", "resolved", "none")
                    /\ UNCHANGED <<pending, issued>>
    /\ UNCHANGED <<externalCallsMetrics, callStats, exited>>
    /\ ClientFrame

\* The body of sendTo's promise: the outcome without a client, else the
\* request.
SendToBody(op, service) ==
    IF service \notin DOMAIN clientsMap
    THEN /\ ended' = Ended(op, unknownService.outcome, unknownService.error)
         /\ exited' = unknownService.exit
         /\ UNCHANGED <<pending, issued>>
    ELSE /\ Request(service, op, "none")
         /\ UNCHANGED <<ended, exited>>

\* sendTo(service, method, data)
SendTo(service) ==
    /\ ~exited
    /\ SendToBody("sendTo", service)
    /\ UNCHANGED <<clientsMap, replaced, externalCallsMetrics, callStats>>
    /\ ClientFrame

\* callService(service, method, params)
CallService(service, params) ==
    /\ ~exited
    /\ IF Typeof(params) # "object"
       THEN /\ ended' = Ended("callService", "rejected", "Critical internal error")
            /\ UNCHANGED <<pending, issued, exited>>
       ELSE SendToBody("callService", service)
    /\ UNCHANGED <<clientsMap, replaced, externalCallsMetrics, callStats>>
    /\ ClientFrame

RequestIds == 1..MaxRequests

\* The method a call of the API requests.
MethodOf(via) == IF via = "addService" THEN "_ping" ELSE "method"

\* isError of the report where a response with an error member counts as
\* an error too.
IsErrorOrRpcError(response) == response.kind \in {"transport error", "rpc error"}

\* Boolean(error) for the error argument of the callback.
IsError(response) == response.kind = "transport error"

\* reportStats({type: 'call', method: service.method, startTs, isError}):
\* the counter of the status is incremented under the label api.
reportCallStats(stats, service, method, isError) ==
    [stats EXCEPT ![IF isError THEN "failure" ELSE "success", service, method] = @ + 1]

\* The request of a number, while it is pending.
PendingRequest(id) == CHOOSE q \in pending : q.id = id

\* The callback of client.request for the request of number id, and what
\* the caller of the API makes of it.
RequestCallback(id, response) ==
    /\ ~exited
    /\ \E q \in pending : q.id = id
    /\ LET q == PendingRequest(id)
       IN  /\ pending' = pending \ {q}
           /\ IF q.via = "addService"
              THEN LET probe == checkOriginRequiredClient(response, q.origin)
                   IN  /\ exited' = probe.exit
                       /\ ended' = IF probe.exit THEN NoResult
                                    ELSE Ended("addService", "resolved", probe.log)
              ELSE /\ ended' =
                          IF response.kind = "transport error"
                          THEN Ended(q.via, "rejected", "transport error")
                          ELSE IF q.via = "callService" /\ response.kind = "rpc error"
                          THEN Ended(q.via, "rejected", "rpc error")
                          ELSE Ended(q.via, "resolved", "none")
                   /\ UNCHANGED exited
    /\ callStats' = IF externalCallsMetrics
                    THEN LET q == PendingRequest(id)
                         IN  reportCallStats(callStats, q.alias, MethodOf(q.via),
                                             IsError(response))
                    ELSE callStats
    /\ UNCHANGED <<clientsMap, replaced, externalCallsMetrics, issued>>
    /\ ClientFrame

ClientNext ==
    \/ \E service \in Aliases, connect \in ConnectStrings, origin \in OriginAliases :
           AddService(service, connect, origin)
    \/ \E service \in Aliases : SendTo(service)
    \/ \E service \in Aliases, params \in ParamKinds : CallService(service, params)
    \/ \E id \in RequestIds, response \in Responses : RequestCallback(id, response)
    \/ Stop

ClientInit ==
    /\ clientsMap = NoKeys
    /\ replaced = FALSE
    /\ externalCallsMetrics \in BOOLEAN
    /\ pending = {}
    /\ issued = 0
    /\ callStats = NoCallStats
    /\ exited = FALSE
    /\ ended = NoResult

\* start() was called with the route `transfer`, a bare function: the
\* server listens.
RouteStarted ==
    /\ routeConfig = BareHandler
    /\ original = [config |-> BareHandler, types |-> Undefined]
    /\ serverTypes = Undefined
    /\ rawRoutes = {"transfer"}
    /\ routes = injectPingRoute(normalizeRoutes({"transfer"}))
    /\ starts = 1
    /\ pong = NoPong
    /\ server = "listening"

InitClients ==
    /\ ConnectorIdle /\ PoolInit /\ SeqInit /\ NestedInit /\ LoopIdle
    /\ RouteIdle \/ RouteStarted
    /\ ClientInit
    /\ MainIdle

SpecClients == InitClients /\ [][ClientNext]_vars

\* C26: an addService that registers binds its alias to its connect
\* string, in the place of the client the alias had, and leaves every
\* other alias as it was; nothing else changes the map.
C26_OneClientPerAlias ==
    /\ [][\A s \in Aliases, c \in ConnectStrings, o \in OriginAliases :
              (AddService(s, c, o) /\ ValidUrl(c)) =>
                  /\ DOMAIN clientsMap' = DOMAIN clientsMap \cup {s}
                  /\ clientsMap'[s] = c
                  /\ \A t \in (DOMAIN clientsMap) \ {s} : clientsMap'[t] = clientsMap[t]]_vars
    /\ [][clientsMap' # clientsMap =>
              \E s \in Aliases, c \in ConnectStrings, o \in OriginAliases :
                  AddService(s, c, o) /\ ValidUrl(c)]_vars

\* addService(a, x); addService(a, y) with b registered: a is bound to y.
C26_Witness ==
    /\ replaced
    /\ DOMAIN clientsMap = {"a", "b"}
    /\ clientsMap["a"] = "http://y"
    /\ clientsMap["b"] = "http://x"

\* C27: the addService that probes its peer resolves whatever comes back
\* (the alias asked for, another one, or a failure of the call); the client
\* stays in the map, the process goes on and no further request is made.
C27_ProbeNeverFails ==
    [][\A id \in RequestIds, response \in Responses :
           (/\ \E q \in pending : q.id = id /\ q.via = "addService"
            /\ RequestCallback(id, response)) =>
               /\ ended'.op = "addService" /\ ended'.outcome = "resolved"
               /\ PendingRequest(id).alias \in DOMAIN clientsMap'
               /\ clientsMap' = clientsMap
               /\ ~exited'
               /\ issued' = issued /\ pending' \subseteq pending]_vars

\* A probe found another peer than the one asked for.
C27_Witness ==
    /\ ended = Ended("addService", "resolved", "gain response from another service")
    /\ clientsMap # NoKeys
    /\ ~exited

\* C32: when stop() is over, the listener is closed and the map holds no
\* client, so a sendTo for an alias registered before is rejected as an
\* unknown service.
C32_StopClearsClients ==
    [][Stop => (/\ server' # "listening"
                /\ clientsMap' = NoKeys)]_vars

\* The params that are no JSON object.
NonObjects == ParamKinds \ {"object"}

\* C28: callService with params that are no JSON object fails with the
\* critical internal error and issues no request, registered alias or not.
C28_NonObjectParamsRejected ==
    [][\A s \in Aliases, p \in NonObjects :
           CallService(s, p) =>
               /\ ended' = Ended("callService", "rejected", "Critical internal error")
               /\ issued' = issued /\ pending' = pending]_vars

\* C29: sendTo for an alias without a client rejects with the unknown
\* service error and does nothing else: no request, no metric, the map as
\* it was, the process running.
C29_UnknownServiceRejected ==
    [][\A s \in Aliases :
           (SendTo(s) /\ s \notin DOMAIN clientsMap) =>
               /\ ended' = Ended("sendTo", "rejected", "unknown service")
               /\ issued' = issued /\ pending' = pending
               /\ callStats' = callStats
               /\ clientsMap' = clientsMap
               /\ ~exited']_vars

\* A sendTo for an unknown alias was rejected while another alias is known.
C29_Witness ==
    /\ ended = Ended("sendTo", "rejected", "unknown service")
    /\ DOMAIN clientsMap = {"a"}
    /\ ~exited

\* C40: with JRS_EXTERNAL_CALLS_METRICS set, the callback of every request
\* increments one call counter by one, under the label of the service and
\* the method requested: call_api_failure_count when the transport gave an
\* error, call_api_success_count otherwise, a response with an error
\* member included; no other step changes a call counter, and with the
\* variable unset none is ever changed.
C40_CallMetrics ==
    /\ [][\A id \in RequestIds, response \in Responses :
              RequestCallback(id, response) =>
                  LET q == PendingRequest(id)
                      status == IF response.kind = "transport error"
                                THEN "failure" ELSE "success"
                  IN  callStats' =
                          IF externalCallsMetrics
                          THEN [callStats EXCEPT ![status, q.alias, MethodOf(q.via)] = @ + 1]
                          ELSE callStats]_vars
    /\ [][(\A id \in RequestIds, response \in Responses : ~RequestCallback(id, response))
              => callStats' = callStats]_vars
    /\ [](~externalCallsMetrics => callStats = NoCallStats)

\* The remote service answered a callService with an error member: the
\* call was rejected and counted as a success of its label.
C40_Witness ==
    /\ externalCallsMetrics
    /\ ended = Ended("callService", "rejected", "rpc error")
    /\ \E service \in Aliases :
           callStats = [NoCallStats EXCEPT !["success", service, "method"] = 1]

-----------------------------------------------------------------------------
(***************************************************************************)
(* BasicMain (services/BasicMain.ts): start(), stop() and the database     *)
(* adapter of startMongoBeforeBoot.                                        *)
(*                                                                         *)
(* The adapter this.mongoDb is "mongoDb"; "db" is another instance of      *)
(* MongoDB, given to addNested; "s1" and "s2" are services of other        *)
(* classes.  startMongoBeforeBoot and addNested are called by the          *)
(* constructor of the application, before start().  One call of start()    *)
(* or stop() is followed at a time; mainLog holds what the current call    *)
(* has started, booted and stopped.                                        *)
(***************************************************************************)

MainServices == {"mongoDb", "db", "s1", "s2"}

\* service instanceof MongoDB
IsMongoDB(s) == s \in {"mongoDb", "db"}

\* What the constructor may have given to addNested.
MainNestedLists ==
    { ns \in UNION { [1..n -> MainServices \ {"mongoDb"}] : n \in 0..MaxChildren } :
          \A i, j \in DOMAIN ns : ns[i] = ns[j] => i = j }

Event(op, svc, by) == [op |-> op, svc |-> svc, by |-> by]

MainFrame ==
    UNCHANGED <<connectorVars, poolVars, seqVars, nestedVars, loopVars, routeVars, clientVars>>

\* tryExcludeDbFromNested(MongoDB)
tryExcludeDbFromNested(ns) == SelectSeq(ns, LAMBDA s : ~IsMongoDB(s))

\* tryIncludeDbToNested: nestedServices.unshift(this.mongoDb)
tryIncludeDbToNested(ns) ==
    IF startMongoBeforeBootFlag THEN <<"mongoDb">> \o ns ELSE ns

\* A call of start() or stop() may begin: none is in progress and the
\* process has not exited.
MainCallable ==
    /\ main.at \in {"idle", "started", "start failed", "stop failed"}
    /\ mainCalls < MaxMainCalls

\* start() up to its first await: the adapter is started when there is
\* one, else boot() is called.
MainStart ==
    /\ MainCallable
    /\ mainCalls' = mainCalls + 1
    /\ IF startMongoBeforeBootFlag
       THEN /\ main' = [at |-> "starting db", idx |-> 0, startedOk |-> FALSE]
            /\ mainLog' = <<Event("start", "mongoDb", "tryStartDbBeforeBoot")>>
       ELSE /\ main' = [at |-> "booting", idx |-> 0, startedOk |-> FALSE]
            /\ mainLog' = <<Event("boot", "main", "start")>>
    /\ UNCHANGED <<startMongoBeforeBootFlag, mainNested, mainDone>>
    /\ MainFrame

\* The start of the adapter resolves: the instances of MongoDB are taken
\* out of the nested services and boot() is called.
MainDbStarted ==
    /\ main.at = "starting db"
    /\ mainNested' = tryExcludeDbFromNested(mainNested)
    /\ main' = [main EXCEPT !.at = "booting"]
    /\ mainLog' = Append(mainLog, Event("boot", "main", "start"))
    /\ UNCHANGED <<startMongoBeforeBootFlag, mainDone, mainCalls>>
    /\ MainFrame

\* The loop of startNested from index i, and after it the rest of start():
\* the adapter is put among the nested services.
MainStartNestedFrom(i) ==
    IF i > Len(mainNested)
    THEN /\ mainNested' = tryIncludeDbToNested(mainNested)
         /\ main' = [at |-> "started", idx |-> 0, startedOk |-> TRUE]
         /\ UNCHANGED mainLog
    ELSE /\ main' = [main EXCEPT !.at = "starting nested", !.idx = i]
         /\ mainLog' = Append(mainLog, Event("start", mainNested[i], "startNested"))
         /\ UNCHANGED mainNested

\* boot() resolves: startNested begins.
MainBooted ==
    /\ main.at = "booting"
    /\ MainStartNestedFrom(1)
    /\ UNCHANGED <<startMongoBeforeBootFlag, mainDone, mainCalls>>
    /\ MainFrame

\* The start() of the nested service the loop awaits resolves.
MainChildStarted ==
    /\ main.at = "starting nested"
    /\ MainStartNestedFrom(main.idx + 1)
    /\ UNCHANGED <<startMongoBeforeBootFlag, mainDone, mainCalls>>
    /\ MainFrame

\* What start() or stop() awaits rejects: the call rejects.
MainAwaitRejects ==
    /\ main.at \in {"starting db", "booting", "starting nested", "stopping nested"}
    /\ main' = [main EXCEPT !.at = IF main.at = "stopping nested"
                                   THEN "stop failed" ELSE "start failed",
                            !.idx = 0]
    /\ UNCHANGED <<startMongoBeforeBootFlag, mainNested, mainDone, mainLog, mainCalls>>
    /\ MainFrame

\* The first index from i on whose service is not done.
RECURSIVE MainNextToStop(_, _)
MainNextToStop(ns, i) ==
    IF i > Len(ns) THEN i
    ELSE IF ns[i] \notin mainDone THEN i
    ELSE MainNextToStop(ns, i + 1)

\* The loop of stopNested over ns from index i, and after it the rest of
\* stop(): process.exit(0).
MainStopNestedFrom(ns, log, i) ==
    LET j == MainNextToStop(ns, i)
    IN  IF j > Len(ns)
        THEN /\ main' = [main EXCEPT !.at = "exited", !.idx = 0]
             /\ mainLog' = log
        ELSE /\ main' = [main EXCEPT !.at = "stopping nested", !.idx = j]
             /\ mainLog' = Append(log, Event("stop", ns[j], "stopNested"))

\* stop() up to its first await: stopNested reverses the nested services
\* and walks them.
MainStop ==
    /\ MainCallable
    /\ mainCalls' = mainCalls + 1
    /\ mainNested' = ReversedInPlace(mainNested)
    /\ MainStopNestedFrom(mainNested', <<>>, 1)
    /\ UNCHANGED <<startMongoBeforeBootFlag, mainDone>>
    /\ MainFrame

\* The stop() of the nested service the loop awaits resolves.
MainChildStopped ==
    /\ main.at = "stopping nested"
    /\ MainStopNestedFrom(mainNested, mainLog, main.idx + 1)
    /\ UNCHANGED <<startMongoBeforeBootFlag, mainNested, mainDone, mainCalls>>
    /\ MainFrame

\* done() of a nested service or of the adapter
MainDone(s) ==
    /\ main.at # "exited"
    /\ s \in Range(mainNested) \/ (s = "mongoDb" /\ startMongoBeforeBootFlag)
    /\ s \notin mainDone
    /\ mainDone' = mainDone \cup {s}
    /\ UNCHANGED <<startMongoBeforeBootFlag, mainNested, main, mainLog, mainCalls>>
    /\ MainFrame

MainNext ==
    \/ MainStart
    \/ MainDbStarted
    \/ MainBooted
    \/ MainChildStarted
    \/ MainAwaitRejects
    \/ MainStop
    \/ MainChildStopped
    \/ \E s \in MainServices : MainDone(s)

\* The main service as its constructor leaves it.
MainInit ==
    /\ startMongoBeforeBootFlag \in BOOLEAN
    /\ mainNested \in MainNestedLists
    /\ mainDone = {}
    /\ main = NotCalled
    /\ mainLog = <<>>
    /\ mainCalls = 0

InitMain ==
    /\ ConnectorIdle /\ PoolInit /\ SeqInit /\ NestedInit /\ LoopIdle /\ RouteIdle
    /\ ClientIdle
    /\ MainInit

SpecMain == InitMain /\ [][MainNext]_vars

\* The events of the current call that stop a service.
StopsOfTheAdapter == {i \in DOMAIN mainLog : mainLog[i] = Event("stop", "mongoDb", "stopNested")}

\* C39: with an adapter requested by startMongoBeforeBoot, start() starts
\* the adapter first, before boot() and before the nested services;
\* startNested starts no instance of MongoDB; and a stop() after a start()
\* that succeeded stops the adapter after all the other nested services:
\* nothing is stopped after the adapter, and the process exits with the
\* adapter stopped or done.
C39_AdapterFirstAndLast ==
    startMongoBeforeBootFlag =>
        /\ (mainLog # <<>> /\ mainLog[1].op # "stop") =>
               /\ mainLog[1] = Event("start", "mongoDb", "tryStartDbBeforeBoot")
               /\ \A i \in DOMAIN mainLog : i > 1 => mainLog[i].svc # "mongoDb"
        /\ \A i \in DOMAIN mainLog :
               mainLog[i].by = "startNested" => ~IsMongoDB(mainLog[i].svc)
        /\ main.startedOk =>
               /\ \A i \in StopsOfTheAdapter : i = Len(mainLog)
               /\ main.at = "exited" => (StopsOfTheAdapter # {} \/ "mongoDb" \in mainDone)

=============================================================================
